---- MODULE Spec2Model ----
(***************************************************************************)
(* Model of the resource-bounded fetch pipeline of data_get_system:        *)
(* utils/web_scraper.py (ResourceLimiter, WebScraper.get_page,             *)
(* WebScraper.download_resource) with the configuration of                 *)
(* config/settings.py.                                                     *)
(*                                                                         *)
(* Two specifications share the limiter operators:                         *)
(*   SpecLimiter  a client calling the ResourceLimiter API directly;       *)
(*   Spec         concurrently started get_page / download_resource calls  *)
(*                on one WebScraper, one action per stretch of code        *)
(*                between two suspensions of a call.                       *)
(* The other components have a specification each:                         *)
(*   SpecSave     one run of SiteSaver.save or SystemSaver.save under      *)
(*                Application.run_async;                                   *)
(*   SpecScan     a DirectoryScanner over a directory tree, and the loop   *)
(*                of SystemSaver.save that consumes its descriptors;       *)
(*   SpecLock     FileManager._file_lock called from several processes;    *)
(*   SpecWrite    one FileManager.safe_write, step by step;                *)
(*   SpecExtract  SiteSaver._extract_and_save_resources up to its gather;  *)
(*   SpecTree     a DirectoryScanner with both entry points, the scan and  *)
(*                get_directory_structure;                                 *)
(*   SpecProcess  ContentProcessor.get_content_type and                    *)
(*                SystemSaver._process_file on one input each;             *)
(*   SpecCount    the worker threads of the scanner's pool;                *)
(*   SpecLive     the calls of Spec under fairness of their steps.         *)
(***************************************************************************)
EXTENDS Integers, Sequences, FiniteSets, Bags, TLC

\* ------------------------------------------------------------------------
\* Bounds of the model
\* ------------------------------------------------------------------------
NumCalls == 4
MaxTime == 2
MaxConnOps == 5
MaxChecks == 3
\* resources of one kind (images and videos, stylesheets, scripts) on a page
MaxTasks == 2
\* files under the path a system-mode run saves
MaxFiles == 4
\* seconds on the clock of a DirectoryScanner
MaxElapsed == 1
\* scans started on one DirectoryScanner
MaxScans == 2
\* the largest max_depth a scan is called with
MaxDepth == 1
\* processes that call safe_write / safe_read on one path
NumProcs == 2
\* calls of one process
MaxTries == 2
\* elements with a src on one page
MaxTags == 2
\* threads of the scanner's pool that run at once
NumWorkers == 3

\* ------------------------------------------------------------------------
\* Configuration (config/settings.py), scaled: one byte unit stands for
\* 5 MiB, connection_limit : max_concurrent keeps the source's 2 : 1.
\* ------------------------------------------------------------------------
\* RESOURCE_MANAGEMENT['network']['connection_limit'] (10 in the source)
ConnectionLimit == 2
\* PERFORMANCE['site_saving']['download']['max_concurrent'] (5 in the source)
MaxConcurrent == 1
\* RESOURCE_MANAGEMENT['network']['max_bandwidth'] (10 MiB in the source)
MaxBandwidth == 2
\* FILE_CONFIG['max_size'] (10 MiB in the source)
MaxFileSize == 2
\* the width of the bandwidth window, `current_time - ts <= 1.0`; the clock
\* of the model counts whole seconds
WindowSeconds == 1
\* `if len(tasks) >= 100` of SystemSaver.save (100 in the source)
BatchSize == 2
\* PERFORMANCE['system_saving']['scanning']['files_per_second'] (1000 in
\* the source)
FilesPerSecond == 1

AllowedProtocols == {"https", "http"}

\* the body lengths a response may have: empty, half the bandwidth budget,
\* the whole budget
BodySizes == {0, 1, MaxBandwidth}

\* the sizes a content-length header may declare: empty, max_size, more
DeclaredSizes == {0, MaxFileSize, MaxFileSize + 1}

\* the byte counts a direct client of the limiter reserves
ReserveSizes == {0, 1, MaxBandwidth}

VARIABLES
    \* ResourceLimiter
    active_connections,   \* self._active_connections
    bandwidth_window,     \* self._bandwidth_window: sequence of [ts, bs]
    now,                  \* time.time(), in seconds
    \* WebScraper
    downloaded_urls,      \* self._downloaded_urls
    sem,                  \* the free permits of self._download_semaphore
    \* the get_page / download_resource calls in progress: a bag of call
    \* frames [pc, kind, url, body, ctype, pending, slot, gates]
    calls,
    started,              \* number of calls made so far
    returned,             \* the value the last step handed back to a caller,
                          \* NoRet when the last step was not a return
    \* observation of the run
    fetched,              \* per URL, the number of successful results so far
    connTrace,            \* direct limiter calls: [op, ok, after]
    hist,                 \* direct bandwidth reservations: [ts, bs, ok]
    \* SiteSaver.save / SystemSaver.save: the run of one saver
    mode,                 \* "none", "site" (SiteSaver) or "system" (SystemSaver)
    stage,                \* the await the run is suspended at, "done" at the end
    input,                \* url / system_path of the call
    callback,             \* whether self._progress_callback is set
    progress,             \* self._progress, in sixtieths of a percent
    reports,              \* the values passed to the progress callback
    result,               \* the value save returned
    log,                  \* the messages save passed to self.logger.error
    siteDirs,             \* whether site_<timestamp>/ and its subdirectories exist
    requested,            \* whether the run has issued a network request
    written,              \* how often the document was moved into place
    files,                \* resource files written under images/ and videos/
    page,                 \* the outcome of get_page and the links of the page
    tasks,                \* site mode: per gather, [size, pending, ok]
    batch,                \* system mode: the local `tasks` list and its results
    stats,                \* system_data[...]['statistics'] without total_files
    contents,             \* len(system_data['system']['contents'])
    total_files,          \* self._total_files
    processed_files,      \* self._processed_files
    toScan,               \* the items scan_directory_async has yet to yield
    observed,             \* the items scan_directory_async yielded
    \* Application.run_async
    exitCode,             \* None while the run goes on, Some(code) at its end
    qualified,            \* site mode: the downloads that came back with the
                          \* right type while memory, CPU and disk allowed
                          \* the write
    \* DirectoryScanner
    tree,                 \* the directory tree the scanner works on
    elapsed,              \* time.time() - self._start_time
    files_processed,      \* self._files_processed
    scanned_files,        \* self._scanned_files
    scan,                 \* the scan_directory_async call and its os.walk
    listed,               \* the directories os.walk has listed in this scan
    yielded,              \* the descriptors yielded since the cache was empty
    scans,                \* the scans started so far
    saved,                \* SystemSaver.save: the descriptors consumed, the
                          \* paths read, the paths with a content entry
    \* FileManager._file_lock on one path, callers in several processes
    lockPath,             \* the file the name path.lock refers to, 0: none
    created,              \* the lock files created so far
    holder,               \* per lock file, the process whose flock holds it
    procs,                \* per process, [pc, fd, tries]
    \* FileManager.safe_write, one call
    target,               \* the content of the target path
    backup,               \* the content of the backup path
    temp,                 \* the content of the temporary file
    wcall,                \* the call: [pc, in, ret]
    \* SiteSaver._extract_and_save_resources
    html,                 \* the elements of the soup that carry a src
    extract,              \* the call: [pc, base, image_tasks, video_tasks,
                          \* all_tasks]
    \* DirectoryScanner.get_directory_structure
    structure,            \* the tree the last call returned
    \* ContentProcessor.get_content_type, SystemSaver._process_file
    job,                  \* the call: [op, content, file, limit, chk, type,
                          \* out]
    \* the threads of DirectoryScanner._executor
    workers               \* per thread, [pc, file, seen, skipped]

saveVars == <<mode, stage, input, callback, progress, reports, result, log,
              siteDirs, requested, written, files, page, tasks, batch, stats,
              contents, total_files, processed_files, toScan, observed>>

\* Application.run_async around the save, and what the run was given
appVars == <<exitCode, qualified>>

\* the components checked on their own
scanVars == <<tree, elapsed, files_processed, scanned_files, scan, listed,
              yielded, scans, saved>>

lockVars == <<lockPath, created, holder, procs>>

writeVars == <<target, backup, temp, wcall>>

extractVars == <<html, extract>>

moreVars == <<structure, job, workers>>

otherVars == <<scanVars, lockVars, writeVars, extractVars, moreVars>>

vars == <<active_connections, bandwidth_window, now, downloaded_urls, sem,
          calls, started, returned, fetched, connTrace, hist, saveVars, appVars,
          otherVars>>

limiterVars == <<active_connections, bandwidth_window, now>>
traceVars == <<connTrace, hist>>

\* ------------------------------------------------------------------------
\* Helpers
\* ------------------------------------------------------------------------
RECURSIVE SumBytes(_)
SumBytes(w) == IF w = <<>> THEN 0 ELSE Head(w).bs + SumBytes(Tail(w))

\* a pruning that drops the sample that is exactly one second old
RECURSIVE FilterStrict(_, _)
FilterStrict(w, t) ==
    IF w = <<>> THEN <<>>
    ELSE IF t - Head(w).ts < WindowSeconds
         THEN <<Head(w)>> \o FilterStrict(Tail(w), t)
         ELSE FilterStrict(Tail(w), t)

\* the pruning of check_and_update_bandwidth: the samples not older than 1 s
RECURSIVE Filter(_, _)
Filter(w, t) ==
    IF w = <<>> THEN <<>>
    ELSE IF t - Head(w).ts <= WindowSeconds
         THEN <<Head(w)>> \o Filter(Tail(w), t)
         ELSE Filter(Tail(w), t)

Max0(n) == IF n > 0 THEN n ELSE 0

\* ------------------------------------------------------------------------
\* ResourceLimiter (each method body runs under self._lock and contains no
\* await, so it is one atomic step)
\* ------------------------------------------------------------------------
\* a limiter that records a sample only when it accepts it
CheckAndUpdateBandwidthAcceptedOnly(w, t, n) ==
    LET kept == Filter(w, t)
        neww == Append(kept, [ts |-> t, bs |-> n])
        ok == SumBytes(neww) <= MaxBandwidth
    IN  [window |-> IF ok THEN neww ELSE kept, ok |-> ok]

\* a limiter that compares the window with the budget before it appends the
\* new sample
CheckAndUpdateBandwidthBeforeAppend(w, t, n) ==
    LET kept == Filter(w, t)
    IN  [window |-> Append(kept, [ts |-> t, bs |-> n]),
         ok |-> SumBytes(kept) <= MaxBandwidth]

\* check_and_update_bandwidth: the pruned window with the new sample, and
\* the verdict
CheckAndUpdateBandwidth(w, t, n) ==
    LET kept == Filter(w, t)
        neww == Append(kept, [ts |-> t, bs |-> n])
    IN  [window |-> neww, ok |-> SumBytes(neww) <= MaxBandwidth]

\* an acquire_connection that compares with > instead of >=
AcquireConnectionOffByOne(a) ==
    IF a > ConnectionLimit
    THEN [active |-> a, ok |-> FALSE]
    ELSE [active |-> a + 1, ok |-> TRUE]

\* acquire_connection: the new counter and the verdict
AcquireConnection(a) ==
    IF a >= ConnectionLimit
    THEN [active |-> a, ok |-> FALSE]
    ELSE [active |-> a + 1, ok |-> TRUE]

\* a release_connection that forgets to decrement
ReleaseConnectionForgets(a) == a

\* release_connection: the new counter
ReleaseConnection(a) == Max0(a - 1)

\* ------------------------------------------------------------------------
\* URLs: what urlparse and is_allowed_protocol see of one
\* ------------------------------------------------------------------------
NoUrl == [scheme |-> "", netloc |-> "", path |-> ""]

URLs ==
    { [scheme |-> "https", netloc |-> "x.test", path |-> "/a.png"],
      [scheme |-> "http",  netloc |-> "x.test", path |-> "/b.png"],
      [scheme |-> "ftp",   netloc |-> "x.test", path |-> "/a.png"],
      [scheme |-> "https", netloc |-> "",       path |-> "/a.png"] }

\* a protocol check that lets every scheme through
IsAllowedProtocolAny(u) == [allowed |-> TRUE, warn |-> u.scheme = "http"]

\* Settings.is_allowed_protocol
IsAllowedProtocol(u) ==
    IF u.scheme \notin AllowedProtocols
    THEN [allowed |-> FALSE, warn |-> FALSE]
    ELSE [allowed |-> TRUE, warn |-> u.scheme = "http"]

\* WebScraper._is_valid_url
IsValidUrl(u) ==
    LET p == IsAllowedProtocol(u)
    IN  IF ~p.allowed
        THEN [valid |-> FALSE, message |-> "invalid-protocol"]
        ELSE IF u.scheme = "" \/ u.netloc = ""
        THEN [valid |-> FALSE, message |-> "invalid-url-format"]
        ELSE [valid |-> TRUE,
              message |-> IF p.warn THEN "warning-http" ELSE "None"]

\* ------------------------------------------------------------------------
\* Responses
\* ------------------------------------------------------------------------
\* a content type is the sequence of its pieces, so that `in` (substring)
\* is containment of a contiguous subsequence
NoType == <<>>
ContentTypes == { <<"image/", "png">>, <<"application/", "zip">> }

AllowedTypes ==
    { <<"text/">>, <<"image/">>, <<"video/">>,
      <<"application/", "javascript">>, <<"application/", "x-javascript">>,
      <<"application/", "json">>, <<"application/", "xml">>,
      <<"application/", "css">> }

Contains(s, pat) ==
    \E i \in 1..(Len(s) - Len(pat) + 1) : SubSeq(s, i, i + Len(pat) - 1) = pat

\* WebScraper._is_allowed_content_type
IsAllowedContentType(ct) == \E a \in AllowedTypes : Contains(ct, a)

\* the content-length header: absent, a number, or not a number
ContentLengths ==
    { [present |-> FALSE, numeric |-> TRUE, value |-> 0],
      [present |-> TRUE, numeric |-> FALSE, value |-> 0] }
    \cup { [present |-> TRUE, numeric |-> TRUE, value |-> n] : n \in DeclaredSizes }

\* ------------------------------------------------------------------------
\* Results
\* ------------------------------------------------------------------------
None == {}
Some(x) == {x}

NoRet == [state |-> "none"]

\* the DownloadResult dataclass with its defaults (download_time, a float
\* that no gate reads, is left out)
DownloadResult(u, success, content, error, content_type, size) ==
    [state |-> "returned", url |-> u, success |-> success,
     content |-> content, error |-> error, content_type |-> content_type,
     size |-> size]

\* the failure value of a call: a DownloadResult for download_resource,
\* None for get_page
Failure(k, u, reason) ==
    IF k = "resource"
    THEN DownloadResult(u, FALSE, None, Some(reason), NoType, 0)
    ELSE [state |-> "returned", soup |-> FALSE]

\* a success value that treats an empty body as no content
SuccessDropsEmpty(k, u, ct, n) ==
    IF k = "resource"
    THEN DownloadResult(u, TRUE, IF n = 0 THEN None ELSE Some(n), None, ct, n)
    ELSE [state |-> "returned", soup |-> TRUE]

\* the success value of a call
Success(k, u, ct, n) ==
    IF k = "resource"
    THEN DownloadResult(u, TRUE, Some(n), None, ct, n)
    ELSE [state |-> "returned", soup |-> TRUE]

ExcKinds == {"ClientError", "Exception"}

\* except clauses without the catch-all `except Exception`
ExceptClientErrorOnly(k, u, exc) ==
    IF exc = "ClientError" THEN Failure(k, u, "transport-error")
    ELSE [state |-> "raised", exc |-> exc]

\* the except clauses of get_page / download_resource

Except(k, u, exc) ==
    IF exc = "ClientError" THEN Failure(k, u, "transport-error")
    ELSE IF exc = "Exception" THEN Failure(k, u, "unexpected-error")
    ELSE [state |-> "raised", exc |-> exc]


\* ------------------------------------------------------------------------
\* asyncio.Semaphore(max_concurrent), used as `async with`
\* ------------------------------------------------------------------------
\* a semaphore that never makes anyone wait
SemaphoreAlwaysFree(s) == TRUE

\* whether an `async with` may enter
SemaphoreFree(s) == s > 0
\* __aenter__: one permit less
SemaphoreAcquire(s) == s - 1
\* an __aexit__ that keeps the permit
SemaphoreReleaseForgets(s) == s

\* __aexit__: one permit more
SemaphoreRelease(s) == s + 1

\* ------------------------------------------------------------------------
\* Call frames.  The calls run as tasks of one event loop, so a call runs
\* alone from one suspension to the next.  An await suspends only when it
\* has to wait: the limiter's lock is never held across a suspension (no
\* method body awaits), hence acquire_connection, release_connection and
\* check_and_update_bandwidth run through; the semaphore suspends when no
\* permit is free; _check_resources (a gather of two tasks), the GET and
\* the body read always suspend.  A frame is a call suspended at
\*   "sem"    `async with self._download_semaphore`
\*   "check"  `await self._check_resources()`
\*   "get"    `async with session.get(url)`
\*   "read"   `await response.read()` / `await response.text()`
\* ------------------------------------------------------------------------
Kinds == {"page", "resource"}

AllGates == <<"dedup", "valid", "slot", "permit", "resources">>

\* the frame of a call that holds a connection slot and waits for a permit
NewFrame(k, u) ==
    [pc |-> "sem", kind |-> k, url |-> u, ctype |-> NoType,
     slot |-> TRUE, permit |-> FALSE, issued |-> FALSE,
     gates |-> <<"dedup", "valid", "slot">>]

Frames == BagToSet(calls)

RECURSIVE CountIn(_, _)
CountIn(S, b) ==
    IF S = {} THEN 0
    ELSE LET r == CHOOSE x \in S : TRUE
         IN  b[r] + CountIn(S \ {r}, b)

\* no content-length header: `response.headers.get('content-length')` is None
NoHeader == [present |-> FALSE, numeric |-> TRUE, value |-> 0]

\* what a step hands back to the caller of a call: the kind of call, the
\* value, the gates the call passed, whether it issued its GET and, for a
\* call that ends on the headers of its response, the content type and the
\* content-length it received (NoType when it ends elsewhere)
NoReturn ==
    [kind |-> "none", value |-> NoRet, gates |-> <<>>, issued |-> FALSE,
     ctype |-> NoType, header |-> NoHeader]
Return(k, v, g, i) ==
    [kind |-> k, value |-> v, gates |-> g, issued |-> i,
     ctype |-> NoType, header |-> NoHeader]

\* the frame r becomes r2 / the frame r is gone
Move(r, r2) == calls' = (calls (-) SetToBag({r})) (+) SetToBag({r2})
Drop(r) == calls' = calls (-) SetToBag({r})

\* the frame once the permit is taken
Enter(r) == [r EXCEPT !.pc = "check", !.permit = TRUE,
                       !.gates = Append(@, "permit")]

\* a call that goes on to the GET whatever the resource check said
AfterCheckIgnored(ok) == "get"

\* where a call goes after `await self._check_resources()`
AfterCheck(ok) == IF ok THEN "get" ELSE "return"

\* whether a value is a successful result
IsSuccess(k, v) ==
    /\ v.state = "returned"
    /\ IF k = "resource" THEN v.success ELSE v.soup

\* a call suspended inside `async with` ends with value v, having received
\* the headers ct and cl (NoType, NoHeader when it received none): the
\* permit is given back, `finally` releases the connection, the caller
\* gets v
FinishOn(r, v, ct, cl) ==
    /\ sem' = SemaphoreRelease(sem)
    /\ active_connections' = ReleaseConnection(active_connections)
    /\ Drop(r)
    /\ returned' = [Return(r.kind, v, r.gates, r.issued)
                        EXCEPT !.ctype = ct, !.header = cl]
    /\ fetched' = IF IsSuccess(r.kind, v)
                  THEN [fetched EXCEPT ![r.url] = @ + 1]
                  ELSE fetched

Finish(r, v) == FinishOn(r, v, NoType, NoHeader)

\* ------------------------------------------------------------------------
\* The savers before save is called
\* ------------------------------------------------------------------------
NoTasks == [size |-> 0, pending |-> 0, ok |-> 0]
NoPage == [outcome |-> "none", resources |-> 0, css |-> 0, js |-> 0]
NoBatch == [size |-> 0, pending |-> 0, content |-> 0, skipped |-> 0, none |-> 0]

\* SiteSaver.__init__ / SystemSaver.__init__, and the disk before the run
InitSave ==
    /\ mode = "none"
    /\ stage = "idle"
    /\ input = NoUrl
    /\ callback = FALSE
    /\ progress = 0
    /\ reports = <<>>
    /\ result = "none"
    /\ log = {}
    /\ siteDirs = FALSE
    /\ requested = FALSE
    /\ written = 0
    /\ files = 0
    /\ page = NoPage
    /\ tasks = [resources |-> NoTasks, css |-> NoTasks, js |-> NoTasks]
    /\ batch = NoBatch
    /\ stats = [processed_files |-> 0, skipped_files |-> 0, error_files |-> 0]
    /\ contents = 0
    /\ total_files = 0
    /\ processed_files = 0
    /\ toScan = 0
    /\ observed = 0

\* the scan a scanner is not in
NoScan == [active |-> FALSE, root |-> <<>>, max_depth |-> None,
           limit |-> None, walk |-> <<>>, stopped |-> "none"]

\* SystemSaver.save before its `async for`
NoSaved == [next |-> 1, reads |-> {}, contents |-> {}, persisted |-> FALSE]

\* DirectoryScanner.__init__, before a tree is chosen
InitScan ==
    /\ tree = "none"
    /\ elapsed = 0
    /\ files_processed = 0
    /\ scanned_files = {}
    /\ scan = NoScan
    /\ listed = {}
    /\ yielded = <<>>
    /\ scans = 0
    /\ saved = NoSaved

Procs == 1..NumProcs

\* the lock files that can come to exist: each open of a missing path.lock
\* creates a new one
LockFiles == 1..(NumProcs * MaxTries)

NoWrite == [pc |-> "idle", in |-> None, ret |-> "none"]

NoExtract == [pc |-> "idle", base |-> None, image_tasks |-> <<>>,
              video_tasks |-> <<>>, all_tasks |-> <<>>]

\* no lock file, no caller inside _file_lock, no safe_write begun
InitFile ==
    /\ lockPath = 0
    /\ created = 0
    /\ holder = [f \in LockFiles |-> 0]
    /\ procs = [p \in Procs |-> [pc |-> "out", fd |-> 0, tries |-> 0]]
    /\ target = "absent"
    /\ backup = "absent"
    /\ temp = "absent"
    /\ wcall = NoWrite

\* no page searched yet
InitExtract ==
    /\ html = <<>>
    /\ extract = NoExtract

\* get_directory_structure not called yet
NoStructure == [kind |-> "none"]

\* neither get_content_type nor _process_file called yet
NoJob == [op |-> "none", content |-> {}, file |-> {}, limit |-> {},
          chk |-> TRUE, type |-> <<>>,
          out |-> [read |-> FALSE, content |-> FALSE, skipped |-> "none"]]

InitMore ==
    /\ structure = NoStructure
    /\ job = NoJob
    /\ workers = [w \in 1..NumWorkers |->
                    [pc |-> "free",
                     file |-> [dir |-> <<>>, name |-> <<>>, size |-> 0,
                               readable |-> TRUE],
                     seen |-> 0, skipped |-> "none"]]

\* Application before run_async returns
InitApp ==
    /\ exitCode = None
    /\ qualified = 0

\* ------------------------------------------------------------------------
\* Initial state: a new WebScraper with its ResourceLimiter, no call made
\* ------------------------------------------------------------------------
Init ==
    /\ active_connections = 0
    /\ bandwidth_window = <<>>
    /\ now = 0
    /\ downloaded_urls = {}
    /\ sem = MaxConcurrent
    /\ calls = EmptyBag
    /\ started = 0
    /\ returned = NoReturn
    /\ fetched = [u \in URLs |-> 0]
    /\ connTrace = <<>>
    /\ hist = <<>>
    /\ InitSave
    /\ InitApp
    /\ InitScan
    /\ InitFile
    /\ InitExtract
    /\ InitMore

\* ------------------------------------------------------------------------
\* get_page / download_resource, one action per stretch between suspensions
\* ------------------------------------------------------------------------
\* the call is made and rejected by the dedup check or by URL validation,
\* both before `try`: it returns at once
StartRejected(k, u) ==
    /\ started < NumCalls
    /\ started' = started + 1
    /\ u \in downloaded_urls \/ ~IsValidUrl(u).valid
    /\ returned' =
          IF u \in downloaded_urls
          THEN Return(k, Failure(k, u, "duplicate-url"), <<>>, FALSE)
          ELSE Return(k, Failure(k, u, IsValidUrl(u).message), <<"dedup">>, FALSE)
    /\ UNCHANGED <<limiterVars, downloaded_urls, sem, calls, fetched, traceVars, saveVars, appVars, otherVars>>

\* the call is made, passes both checks and finds no connection slot:
\* `return` inside `try`, so `finally` runs release_connection
StartNoSlot(k, u) ==
    /\ started < NumCalls
    /\ started' = started + 1
    /\ u \notin downloaded_urls
    /\ IsValidUrl(u).valid
    /\ ~AcquireConnection(active_connections).ok
    /\ active_connections' =
          ReleaseConnection(AcquireConnection(active_connections).active)
    /\ returned' = Return(k, Failure(k, u, "connection-limit"),
                          <<"dedup", "valid">>, FALSE)
    /\ UNCHANGED <<bandwidth_window, now, downloaded_urls, sem, calls, fetched,
                   traceVars, saveVars, appVars, otherVars>>

\* the call is made, passes both checks and takes a connection slot; it
\* takes a permit if one is free and waits for one otherwise
Start(k, u) ==
    /\ started < NumCalls
    /\ started' = started + 1
    /\ u \notin downloaded_urls
    /\ IsValidUrl(u).valid
    /\ AcquireConnection(active_connections).ok
    /\ active_connections' = AcquireConnection(active_connections).active
    /\ IF SemaphoreFree(sem)
       THEN /\ sem' = SemaphoreAcquire(sem)
            /\ calls' = calls (+) SetToBag({Enter(NewFrame(k, u))})
       ELSE /\ calls' = calls (+) SetToBag({NewFrame(k, u)})
            /\ UNCHANGED sem
    /\ returned' = NoReturn
    /\ UNCHANGED <<bandwidth_window, now, downloaded_urls, fetched, traceVars, saveVars, appVars, otherVars>>

\* a waiting call gets a permit
SemAcquire(r) ==
    /\ r.pc = "sem"
    /\ SemaphoreFree(sem)
    /\ sem' = SemaphoreAcquire(sem)
    /\ Move(r, Enter(r))
    /\ returned' = NoReturn
    /\ UNCHANGED <<limiterVars, downloaded_urls, started, fetched, traceVars, saveVars, appVars, otherVars>>

\* `if not await self._check_resources()`: memory and CPU are read from the
\* process; on True the session is taken and the GET is issued
CheckResources(r) ==
    /\ r.pc = "check"
    /\ \E ok \in BOOLEAN :
          IF AfterCheck(ok) = "get"
          THEN /\ Move(r, [r EXCEPT !.pc = "get", !.issued = TRUE,
                                    !.gates = IF ok THEN Append(@, "resources")
                                              ELSE @])
               /\ returned' = NoReturn
               /\ UNCHANGED <<active_connections, sem, fetched>>
          ELSE Finish(r, Failure(r.kind, r.url, "resource-limit"))
    /\ UNCHANGED <<bandwidth_window, now, downloaded_urls, started, traceVars, saveVars, appVars, otherVars>>

\* a size check that also refuses a body of exactly max_size
HeaderVerdictAtLimit(ct, cl) ==
    IF ~IsAllowedContentType(ct) THEN "invalid-content-type"
    ELSE IF cl.present /\ ~cl.numeric THEN "raise"
    ELSE IF cl.present /\ cl.value >= MaxFileSize THEN "size-exceeded"
    ELSE "read"

\* what download_resource does with the response headers: the failure
\* reason, "raise" (int() of a malformed content-length) or "read"
HeaderVerdict(ct, cl) ==
    IF ~IsAllowedContentType(ct) THEN "invalid-content-type"
    ELSE IF cl.present /\ ~cl.numeric THEN "raise"
    ELSE IF cl.present /\ cl.value > MaxFileSize THEN "size-exceeded"
    ELSE "read"

\* the GET fails: aiohttp.ClientError (connection, raise_for_status) or
\* another exception (timeout)
GetFails(r) ==
    /\ r.pc = "get"
    /\ \E exc \in ExcKinds : Finish(r, Except(r.kind, r.url, exc))
    /\ UNCHANGED <<bandwidth_window, now, downloaded_urls, started, traceVars, saveVars, appVars, otherVars>>

\* the response of a get_page arrives with a good status: the text is awaited
PageResponse(r) ==
    /\ r.pc = "get"
    /\ r.kind = "page"
    /\ Move(r, [r EXCEPT !.pc = "read"])
    /\ returned' = NoReturn
    /\ UNCHANGED <<limiterVars, downloaded_urls, sem, started, fetched,
                   traceVars, saveVars, appVars, otherVars>>

\* the response of a download_resource arrives with a good status: content
\* type and declared size are checked before the body is awaited
ResourceResponse(r) ==
    /\ r.pc = "get"
    /\ r.kind = "resource"
    /\ \E ct \in ContentTypes, cl \in ContentLengths :
          LET v == HeaderVerdict(ct, cl)
          IN  IF v = "read"
              THEN /\ Move(r, [r EXCEPT !.pc = "read", !.ctype = ct])
                   /\ returned' = NoReturn
                   /\ UNCHANGED <<active_connections, sem, fetched>>
              ELSE FinishOn(r, IF v = "raise"
                               THEN Except(r.kind, r.url, "Exception")
                               ELSE Failure(r.kind, r.url, v), ct, cl)
    /\ UNCHANGED <<bandwidth_window, now, downloaded_urls, started, traceVars, saveVars, appVars, otherVars>>

\* the body arrives: `check_and_update_bandwidth(len(content))`; when it
\* accepts, the URL is recorded and the call succeeds
ReadBody(r) ==
    /\ r.pc = "read"
    /\ \E n \in BodySizes :
          LET b == CheckAndUpdateBandwidth(bandwidth_window, now, n)
          IN  /\ bandwidth_window' = b.window
              /\ IF b.ok
                 THEN /\ downloaded_urls' = downloaded_urls \cup {r.url}
                      /\ Finish(r, Success(r.kind, r.url, r.ctype, n))
                 ELSE /\ Finish(r, Failure(r.kind, r.url, "bandwidth-limit"))
                      /\ UNCHANGED downloaded_urls
    /\ UNCHANGED <<now, started, traceVars, saveVars, appVars, otherVars>>

\* the body read fails
ReadFails(r) ==
    /\ r.pc = "read"
    /\ \E exc \in ExcKinds : Finish(r, Except(r.kind, r.url, exc))
    /\ UNCHANGED <<bandwidth_window, now, downloaded_urls, started, traceVars, saveVars, appVars, otherVars>>

\* the wall clock advances by a second
Tick ==
    /\ now < MaxTime
    /\ now' = now + 1
    /\ returned' = NoReturn
    /\ UNCHANGED <<active_connections, bandwidth_window, downloaded_urls, sem,
                   calls, started, fetched, traceVars, saveVars, appVars, otherVars>>

Next ==
    \/ \E k \in Kinds, u \in URLs : StartRejected(k, u)
    \/ \E k \in Kinds, u \in URLs : StartNoSlot(k, u)
    \/ \E k \in Kinds, u \in URLs : Start(k, u)
    \/ \E r \in Frames : SemAcquire(r)
    \/ \E r \in Frames : CheckResources(r)
    \/ \E r \in Frames : GetFails(r)
    \/ \E r \in Frames : PageResponse(r)
    \/ \E r \in Frames : ResourceResponse(r)
    \/ \E r \in Frames : ReadBody(r)
    \/ \E r \in Frames : ReadFails(r)
    \/ Tick

Spec == Init /\ [][Next]_vars

\* a step of a call that is under way: the permit it waits for is free, the
\* resource check answers, the GET or the body read completes or fails
Progress(r) ==
    \/ SemAcquire(r)
    \/ CheckResources(r)
    \/ GetFails(r)
    \/ PageResponse(r)
    \/ ResourceResponse(r)
    \/ ReadBody(r)
    \/ ReadFails(r)

\* The event loop runs a task that can go on, the semaphore wakes a waiter
\* when a permit is there, and every GET and every read completes or times
\* out: a step of a call that stays possible is taken.
\* (the clock is left where it is: no step of a call waits for it)
NextLive ==
    \/ \E k \in Kinds, u \in URLs : StartRejected(k, u)
    \/ \E k \in Kinds, u \in URLs : StartNoSlot(k, u)
    \/ \E k \in Kinds, u \in URLs : Start(k, u)
    \/ \E r \in Frames : Progress(r)

SpecLive ==
    /\ Init
    /\ [][NextLive]_vars
    /\ WF_vars(\E r \in Frames : Progress(r))

\* ------------------------------------------------------------------------
\* A client of the ResourceLimiter alone: its three operations called one
\* after the other, at any times
\* ------------------------------------------------------------------------
fetchVars == <<downloaded_urls, sem, calls, started, returned, fetched>>

LimAcquire ==
    /\ Len(connTrace) < MaxConnOps
    /\ LET a == AcquireConnection(active_connections)
       IN  /\ active_connections' = a.active
           /\ connTrace' = Append(connTrace,
                  [op |-> "acquire", ok |-> a.ok, after |-> a.active])
    /\ UNCHANGED <<bandwidth_window, now, hist, fetchVars, saveVars, appVars, otherVars>>

LimRelease ==
    /\ Len(connTrace) < MaxConnOps
    /\ active_connections' = ReleaseConnection(active_connections)
    /\ connTrace' = Append(connTrace,
           [op |-> "release", ok |-> TRUE,
            after |-> ReleaseConnection(active_connections)])
    /\ UNCHANGED <<bandwidth_window, now, hist, fetchVars, saveVars, appVars, otherVars>>

LimBandwidth(n) ==
    /\ Len(hist) < MaxChecks
    /\ LET b == CheckAndUpdateBandwidth(bandwidth_window, now, n)
       IN  /\ bandwidth_window' = b.window
           /\ hist' = Append(hist, [ts |-> now, bs |-> n, ok |-> b.ok])
    /\ UNCHANGED <<active_connections, now, connTrace, fetchVars, saveVars, appVars, otherVars>>

NextLimiter ==
    \/ LimAcquire
    \/ LimRelease
    \/ \E n \in ReserveSizes : LimBandwidth(n)
    \/ Tick

SpecLimiter == Init /\ [][NextLimiter]_vars

\* ------------------------------------------------------------------------
\* SiteSaver.save and SystemSaver.save.  main.py runs one of them per
\* process.  The scraper, the scanner and the file manager answer through
\* their return values, which the run draws from the values they can
\* return.  Progress is counted in sixtieths of a percent, so that every
\* share `weight / len(tasks)` of the bounded runs is a whole number.
\* ------------------------------------------------------------------------
scraperVars == <<limiterVars, fetchVars, traceVars>>

Percent(n) == n * 60

\* `weight / len(tasks)`
Share(weight, n) == Percent(weight) \div n

Min(a, b) == IF a < b THEN a ELSE b

\* self._progress, what the callback has seen, whether there is a callback
Meter == [progress |-> progress, reports |-> reports, callback |-> callback]

\* `self._progress = 0; self._progress_callback = progress_callback`
NewMeter(cb) == [progress |-> 0, reports |-> <<>>, callback |-> cb]

SetMeter(m) ==
    /\ progress' = m.progress
    /\ reports' = m.reports

\* an _update_progress without the cap
UpdateProgressUncapped(m, increment) ==
    LET q == m.progress + increment
    IN  [m EXCEPT !.progress = q,
                  !.reports = IF m.callback THEN Append(@, q) ELSE @]

\* _update_progress(increment)
UpdateProgress(m, increment) ==
    LET q == Min(Percent(100), m.progress + increment)
    IN  [m EXCEPT !.progress = q,
                  !.reports = IF m.callback THEN Append(@, q) ELSE @]

\* `for result in results: if <success>: self._update_progress(increment)`
\* with k successful results
RECURSIVE UpdateProgressTimes(_, _, _)
UpdateProgressTimes(m, increment, k) ==
    IF k = 0 THEN m
    ELSE UpdateProgressTimes(UpdateProgress(m, increment), increment, k - 1)

\* what the checks and the I/O of one safe_write find; SpecWrite below
\* takes the call apart, here only its verdict matters (a check that raises
\* reaches the handler of save, which fails the run like a False does)
WriteConditions ==
    [valid : BOOLEAN, memory : BOOLEAN, disk : BOOLEAN, io : BOOLEAN]

\* a safe_write that reports success although the write raised
SafeWriteOptimistic(c) ==
    [ok |-> c.valid /\ c.memory /\ c.disk,
     moved |-> c.valid /\ c.memory /\ c.disk /\ c.io]

\* FileManager.safe_write: the value it returns and whether the file was
\* moved into place
SafeWrite(c) ==
    [ok |-> c.valid /\ c.memory /\ c.disk /\ c.io,
     moved |-> c.valid /\ c.memory /\ c.disk /\ c.io]

\* a save that goes on without a page
PageMissingIgnored(soup) == FALSE

\* `if not soup`
PageMissing(soup) == ~soup

\* what get_page can end with; "invalid-url-format" is the only end for a
\* URL that _is_valid_url refuses
PageOutcomes ==
    {"soup", "invalid-url-format", "resource-limit", "transport-error",
     "unexpected-error"}

\* whether get_page issued its GET before it ended that way
PageRequested(o) == o \in {"soup", "transport-error", "unexpected-error"}

\* what download_resource can give _download_and_save_resource: a failure
\* result, a success of another content type than the tag asks for, a
\* success of the right type
DownloadOutcomes == {"failed", "other-type", "fetched"}

\* ContentProcessor has no method _sanitize_filename (FileManager has)
HasSanitizeFilename == FALSE

\* the download the tag asked for came back, and nothing stands in the way
\* of writing it: memory and CPU under their ceilings, path valid, disk free
\* and writable
Qualifies(o, chk, c) ==
    o = "fetched" /\ chk /\ c.valid /\ c.memory /\ c.disk /\ c.io

\* SiteSaver._download_and_save_resource: whether it returns success, and
\* whether it logged an error; chk is _check_resources, c the conditions of
\* its safe_write
DownloadAndSaveResource(o, chk, c) ==
    IF o # "fetched" THEN [saved |-> FALSE, error |-> FALSE]
    ELSE IF ~HasSanitizeFilename THEN [saved |-> FALSE, error |-> TRUE]
    ELSE [saved |-> chk /\ SafeWrite(c).moved, error |-> FALSE]

\* what _process_external_resource can do: return a dict with content,
\* return None (no text), raise inside `try`
TextOutcomes == {"content", "nothing", "raised"}

\* SiteSaver._process_external_resource: whether the result counts
\* (`isinstance(result, dict) and result.get('content')`)
ProcessExternalResource(o) == o = "content"

\* a save that gives up when a gathered task did not succeed
AfterGatherStrict(t, next) == IF t.ok < t.size THEN "failed" ELSE next

\* where save goes after `await asyncio.gather(..., return_exceptions=True)`
AfterGather(t, next) == next

\* what SystemSaver._process_file can return: a dict with content, a dict
\* with 'skipped', None
ProcessOutcomes == {"content", "skipped", "none"}

\* the statistics bucket of one gathered result
Bucket(o) ==
    IF o = "none" THEN "uncounted"
    ELSE IF o = "skipped" THEN "skipped_files"
    ELSE "processed_files"

\* a batch test that lets one task more in
BatchFullLate(n) == n > BatchSize

\* `if len(tasks) >= 100`
BatchFull(n) == n >= BatchSize

\* the run ends with value v
Returns(v) ==
    /\ result' = v
    /\ stage' = "done"

\* ---- site mode -------------------------------------------------------
\* save(url, progress_callback=cb) up to `await self.web_scraper.get_page`
SiteStart(u, cb, mk) ==
    /\ mode = "none"
    /\ exitCode = None
    /\ mode' = "site"
    /\ input' = u
    /\ IF u = NoUrl
       THEN /\ log' = log \cup {"no-url"}
            /\ Returns("false")
            /\ UNCHANGED <<callback, progress, reports, siteDirs>>
       ELSE /\ callback' = cb
            /\ IF ~IsAllowedProtocol(u).allowed
               THEN /\ log' = log \cup {"invalid-protocol"}
                    /\ Returns("false")
                    /\ progress' = 0
                    /\ UNCHANGED <<reports, siteDirs>>
               ELSE IF ~mk
               THEN /\ log' = log \cup {"exception"}
                    /\ Returns("false")
                    /\ progress' = 0
                    /\ UNCHANGED <<reports, siteDirs>>
               ELSE /\ siteDirs' = TRUE
                    /\ SetMeter(UpdateProgress(NewMeter(cb), Percent(5)))
                    /\ stage' = "page"
                    /\ UNCHANGED <<log, result>>
    /\ UNCHANGED <<requested, written, files, page, tasks, batch, stats,
                   contents, total_files, processed_files, toScan, observed,
                   scraperVars, appVars, otherVars>>

\* get_page returns: None ends the run, a soup is searched for its images
\* and videos and their downloads are gathered
SitePage(o, nr, nc, nj) ==
    /\ mode = "site"
    /\ stage = "page"
    /\ IsValidUrl(input).valid <=> o # "invalid-url-format"
    /\ requested' = PageRequested(o)
    /\ IF PageMissing(o = "soup")
       THEN /\ page' = [NoPage EXCEPT !.outcome = o]
            /\ log' = log \cup {"page-failed"}
            /\ Returns("false")
            /\ UNCHANGED <<progress, reports, tasks>>
       ELSE /\ page' = [outcome |-> o, resources |-> nr, css |-> nc, js |-> nj]
            /\ SetMeter(UpdateProgress(Meter, Percent(10)))
            /\ tasks' = [tasks EXCEPT !.resources =
                            [size |-> nr, pending |-> nr, ok |-> 0]]
            /\ stage' = "resources"
            /\ UNCHANGED <<log, result>>
    /\ UNCHANGED <<mode, input, callback, siteDirs, written, files, batch,
                   stats, contents, total_files, processed_files, toScan,
                   observed, scraperVars, appVars, otherVars>>

\* one _download_and_save_resource task ends
SiteResourceDone(o, chk, c) ==
    /\ mode = "site"
    /\ stage = "resources"
    /\ tasks.resources.pending > 0
    /\ LET r == DownloadAndSaveResource(o, chk, c)
       IN  /\ tasks' = [tasks EXCEPT !.resources.pending = @ - 1,
                                     !.resources.ok = IF r.saved THEN @ + 1 ELSE @]
           /\ files' = IF r.saved THEN files + 1 ELSE files
           /\ log' = IF r.error THEN log \cup {"resource-error"} ELSE log
    /\ qualified' = IF Qualifies(o, chk, c) THEN qualified + 1 ELSE qualified
    /\ UNCHANGED <<mode, stage, input, callback, progress, reports, result,
                   siteDirs, requested, written, page, batch, stats, contents,
                   total_files, processed_files, toScan, observed, scraperVars,
                   exitCode, otherVars>>

\* the gather of the downloads returns: every saved resource advances the
\* progress; the stylesheets are gathered
SiteResourcesGathered ==
    /\ mode = "site"
    /\ stage = "resources"
    /\ tasks.resources.pending = 0
    /\ LET t == tasks.resources
           next == AfterGather(t, "styles")
       IN  IF next = "failed"
           THEN /\ log' = log \cup {"exception"}
                /\ Returns("false")
                /\ UNCHANGED <<progress, reports, tasks>>
           ELSE /\ SetMeter(IF t.ok = 0 THEN Meter
                            ELSE UpdateProgressTimes(Meter, Share(40, t.size), t.ok))
                /\ tasks' = [tasks EXCEPT !.css =
                                [size |-> page.css, pending |-> page.css, ok |-> 0]]
                /\ stage' = next
                /\ UNCHANGED <<log, result>>
    /\ UNCHANGED <<mode, input, callback, siteDirs, requested, written, files,
                   page, batch, stats, contents, total_files, processed_files,
                   toScan, observed, scraperVars, appVars, otherVars>>

\* one _process_external_resource task of a stylesheet ends
SiteStyleDone(o) ==
    /\ mode = "site"
    /\ stage = "styles"
    /\ tasks.css.pending > 0
    /\ tasks' = [tasks EXCEPT !.css.pending = @ - 1,
                              !.css.ok = IF ProcessExternalResource(o)
                                         THEN @ + 1 ELSE @]
    /\ log' = IF o = "raised" THEN log \cup {"resource-error"} ELSE log
    /\ UNCHANGED <<mode, stage, input, callback, progress, reports, result,
                   siteDirs, requested, written, files, page, batch, stats,
                   contents, total_files, processed_files, toScan, observed,
                   scraperVars, appVars, otherVars>>

\* the gather of the stylesheets returns; the scripts are gathered
SiteStylesGathered ==
    /\ mode = "site"
    /\ stage = "styles"
    /\ tasks.css.pending = 0
    /\ LET next == AfterGather(tasks.css, "scripts")
       IN  IF next = "failed"
           THEN /\ log' = log \cup {"exception"}
                /\ Returns("false")
                /\ UNCHANGED tasks
           ELSE /\ tasks' = [tasks EXCEPT !.js =
                                [size |-> page.js, pending |-> page.js, ok |-> 0]]
                /\ stage' = next
                /\ UNCHANGED <<log, result>>
    /\ UNCHANGED <<mode, input, callback, progress, reports, siteDirs,
                   requested, written, files, page, batch, stats, contents,
                   total_files, processed_files, toScan, observed, scraperVars, appVars, otherVars>>

\* one _process_external_resource task of a script ends
SiteScriptDone(o) ==
    /\ mode = "site"
    /\ stage = "scripts"
    /\ tasks.js.pending > 0
    /\ tasks' = [tasks EXCEPT !.js.pending = @ - 1,
                              !.js.ok = IF ProcessExternalResource(o)
                                        THEN @ + 1 ELSE @]
    /\ log' = IF o = "raised" THEN log \cup {"resource-error"} ELSE log
    /\ UNCHANGED <<mode, stage, input, callback, progress, reports, result,
                   siteDirs, requested, written, files, page, batch, stats,
                   contents, total_files, processed_files, toScan, observed,
                   scraperVars, appVars, otherVars>>

\* the gather of the scripts returns: every stylesheet and every script
\* with content advances the progress; the HTML is processed and the
\* document is built
SiteScriptsGathered ==
    /\ mode = "site"
    /\ stage = "scripts"
    /\ tasks.js.pending = 0
    /\ LET next == AfterGather(tasks.js, "write")
       IN  IF next = "failed"
           THEN /\ log' = log \cup {"exception"}
                /\ Returns("false")
                /\ UNCHANGED <<progress, reports>>
           ELSE LET m1 == IF tasks.css.ok = 0 THEN Meter
                          ELSE UpdateProgressTimes(
                                   Meter, Share(20, tasks.css.size), tasks.css.ok)
                    m2 == IF tasks.js.ok = 0 THEN m1
                          ELSE UpdateProgressTimes(
                                   m1, Share(20, tasks.js.size), tasks.js.ok)
                IN  /\ SetMeter(m2)
                    /\ stage' = next
                    /\ UNCHANGED <<log, result>>
    /\ UNCHANGED <<mode, input, callback, siteDirs, requested, written, files,
                   page, tasks, batch, stats, contents, total_files,
                   processed_files, toScan, observed, scraperVars, appVars, otherVars>>

\* ---- system mode -----------------------------------------------------
\* save(system_path, progress_callback=cb) up to the first item of the scan:
\* n files are counted by _count_files, v of them will be yielded
SystemStart(valid, cb, mk, n, v) ==
    /\ mode = "none"
    /\ exitCode = None
    /\ mode' = "system"
    /\ callback' = cb
    /\ IF ~valid \/ ~mk
       THEN /\ log' = log \cup {IF ~valid THEN "invalid-path" ELSE "exception"}
            /\ Returns("false")
            /\ progress' = 0
            /\ UNCHANGED <<reports, total_files, toScan>>
       ELSE /\ SetMeter(UpdateProgress(
                         UpdateProgress(NewMeter(cb), Percent(5)), Percent(15)))
            /\ total_files' = n
            /\ toScan' = v
            /\ stage' = "scan"
            /\ UNCHANGED <<log, result>>
    /\ UNCHANGED <<input, siteDirs, requested, written, files, page, tasks,
                   batch, stats, contents, processed_files, observed,
                   scraperVars, appVars, otherVars>>

\* the scan yields an item: its task is appended, and a full batch is
\* gathered
SystemYield ==
    /\ mode = "system"
    /\ stage = "scan"
    /\ toScan > 0
    /\ toScan' = toScan - 1
    /\ observed' = observed + 1
    /\ IF BatchFull(batch.size + 1)
       THEN /\ batch' = [batch EXCEPT !.size = @ + 1, !.pending = batch.size + 1]
            /\ stage' = "batch"
       ELSE /\ batch' = [batch EXCEPT !.size = @ + 1]
            /\ UNCHANGED stage
    /\ UNCHANGED <<mode, input, callback, progress, reports, result, log,
                   siteDirs, requested, written, files, page, tasks, stats,
                   contents, total_files, processed_files, scraperVars, appVars, otherVars>>

\* the scan ends, with nothing left to yield or cut short by
\* _check_performance or an exception: the remaining tasks are gathered
SystemScanEnds(cut) ==
    /\ mode = "system"
    /\ stage = "scan"
    /\ toScan = 0 \/ cut
    /\ IF batch.size > 0
       THEN /\ batch' = [batch EXCEPT !.pending = batch.size]
            /\ stage' = "rest"
       ELSE /\ stage' = "write"
            /\ UNCHANGED batch
    /\ UNCHANGED <<mode, input, callback, progress, reports, result, log,
                   siteDirs, requested, written, files, page, tasks, stats,
                   contents, total_files, processed_files, toScan, observed,
                   scraperVars, appVars, otherVars>>

\* one _process_file task ends
SystemFileDone(o) ==
    /\ mode = "system"
    /\ stage \in {"batch", "rest"}
    /\ batch.pending > 0
    /\ batch' = [batch EXCEPT !.pending = @ - 1, ![o] = @ + 1]
    /\ UNCHANGED <<mode, stage, input, callback, progress, reports, result,
                   log, siteDirs, requested, written, files, page, tasks,
                   stats, contents, total_files, processed_files, toScan,
                   observed, scraperVars, appVars, otherVars>>

\* the statistics after the results of a gather are counted
Tally(st, b) ==
    [processed_files |-> st.processed_files + b.content,
     skipped_files |-> st.skipped_files + b.skipped,
     error_files |-> st.error_files]

\* the gather of a batch returns: the results are counted; after a full
\* batch the progress advances and the scan goes on, after the last tasks
\* the document is written
SystemGathered ==
    /\ mode = "system"
    /\ stage \in {"batch", "rest"}
    /\ batch.pending = 0
    /\ stats' = Tally(stats, batch)
    /\ contents' = contents + batch.content
    /\ IF stage = "batch"
       THEN /\ processed_files' = processed_files + batch.size
            /\ SetMeter(IF total_files > 0
                        THEN UpdateProgress(Meter,
                                 (Percent(60) * (processed_files + batch.size))
                                     \div total_files)
                        ELSE Meter)
            /\ batch' = NoBatch
            /\ stage' = "scan"
       ELSE /\ stage' = "write"
            /\ UNCHANGED <<processed_files, progress, reports, batch>>
    /\ UNCHANGED <<mode, input, callback, result, log, siteDirs, requested,
                   written, files, page, tasks, total_files, toScan, observed,
                   scraperVars, appVars, otherVars>>

\* ---- both modes ------------------------------------------------------
\* the progress the write stage adds
WriteWeight == IF mode = "site" THEN Percent(5) ELSE Percent(15)

\* `if self.file_manager.safe_write(yaml_path, yaml.dump(...))`
Write(c) ==
    /\ stage = "write"
    /\ LET w == SafeWrite(c)
       IN  /\ written' = IF w.moved THEN written + 1 ELSE written
           /\ IF w.ok
              THEN /\ SetMeter(UpdateProgress(Meter, WriteWeight))
                   /\ Returns("true")
                   /\ UNCHANGED log
              ELSE /\ log' = log \cup {"write-failed"}
                   /\ Returns("false")
                   /\ UNCHANGED <<progress, reports>>
    /\ UNCHANGED <<mode, input, callback, siteDirs, requested, files, page,
                   tasks, batch, stats, contents, total_files, processed_files,
                   toScan, observed, scraperVars, appVars, otherVars>>

\* KeyboardInterrupt while the run waits: main.py returns 1
Interrupt ==
    /\ stage \in {"page", "resources", "styles", "scripts", "scan", "batch",
                  "rest"}
    /\ Returns("interrupted")
    /\ UNCHANGED <<mode, input, callback, progress, reports, log, siteDirs,
                   requested, written, files, page, tasks, batch, stats,
                   contents, total_files, processed_files, toScan, observed,
                   scraperVars, appVars, otherVars>>

\* run_async after `success = await saver.save(...)`, and its two handlers
ExitCodeLenient(res) == IF res \in {"true", "interrupted"} THEN 0 ELSE 1

ExitCode(res) == IF res = "true" THEN 0 ELSE 1

\* run_async returns: 0 after a save that returned True, 1 after one that
\* returned False or was interrupted
RunReturns ==
    /\ stage = "done"
    /\ exitCode = None
    /\ exitCode' = Some(ExitCode(result))
    /\ UNCHANGED <<saveVars, scraperVars, qualified, otherVars>>

\* an exception raised in run_async before the saver is called (the mode,
\* the progress bar) reaches `except Exception`: 1
RunRaises ==
    /\ mode = "none"
    /\ exitCode = None
    /\ exitCode' = Some(1)
    /\ UNCHANGED <<saveVars, scraperVars, qualified, otherVars>>

NextSave ==
    \/ \E u \in URLs \cup {NoUrl}, cb \in BOOLEAN, mk \in BOOLEAN :
          SiteStart(u, cb, mk)
    \/ \E o \in PageOutcomes, nr \in 0..MaxTasks, nc \in 0..MaxTasks,
          nj \in 0..MaxTasks : SitePage(o, nr, nc, nj)
    \/ \E o \in DownloadOutcomes, chk \in BOOLEAN, c \in WriteConditions :
          SiteResourceDone(o, chk, c)
    \/ SiteResourcesGathered
    \/ \E o \in TextOutcomes : SiteStyleDone(o)
    \/ SiteStylesGathered
    \/ \E o \in TextOutcomes : SiteScriptDone(o)
    \/ SiteScriptsGathered
    \/ \E valid \in BOOLEAN, cb \in BOOLEAN, mk \in BOOLEAN,
          n \in 0..MaxFiles : \E v \in 0..n : SystemStart(valid, cb, mk, n, v)
    \/ SystemYield
    \/ \E cut \in BOOLEAN : SystemScanEnds(cut)
    \/ \E o \in ProcessOutcomes : SystemFileDone(o)
    \/ SystemGathered
    \/ \E c \in WriteConditions : Write(c)
    \/ Interrupt
    \/ RunReturns
    \/ RunRaises

SpecSave == Init /\ [][NextSave]_vars

\* ------------------------------------------------------------------------
\* DirectoryScanner, and the loop of SystemSaver.save that consumes it
\* ------------------------------------------------------------------------
\* A name is a sequence of pieces, so that a leading dot and a suffix can be
\* told; a path is a sequence of names, one per component as it was spelled.
Dot == <<".">>
Hidden(name) == Head(name) = "."

\* settings.EXCLUDED_ITEMS['directories']
ExcludedDirectories ==
    {<<".", "git">>, <<"__pycache__">>, <<"venv">>, <<"node_modules">>,
     <<"dist">>, <<"build">>}

\* fnmatch of a name against settings.EXCLUDED_ITEMS['files']
MatchesExcludedFile(name) ==
    \/ name \in {<<".", "DS_Store">>, <<"Thumbs", ".db">>, <<".", "env">>}
    \/ (Len(name) > 1 /\ name[Len(name)] \in {".pyc", ".pyo", ".pyd"})

\* one file of a tree: the directory it is in (names below the root), its
\* name, its size and whether os.access(R_OK) holds
File(d, n, sz, rd) == [dir |-> d, name |-> n, size |-> sz, readable |-> rd]

\* the trees a scanner is pointed at: a root with a .git directory and one
\* regular file, and a chain of directories three deep
Trees ==
    [plain |->
        [dirs |-> {<<>>, <<<<".", "git">>>>},
         files |-> {File(<<>>, <<"main", ".py">>, 1, TRUE),
                    File(<<<<".", "git">>>>, <<"config">>, 1, TRUE),
                    File(<<<<".", "git">>>>, <<"HEAD">>, 1, TRUE)}],
     deep |->
        [dirs |-> {<<>>, <<<<"src">>>>, <<<<"src">>, <<"pkg">>>>,
                   <<<<"src">>, <<"pkg">>, <<"sub">>>>},
         files |-> {File(<<>>, <<"readme", ".txt">>, 1, TRUE),
                    File(<<>>, <<"model", ".bin">>, MaxFileSize + 1, TRUE),
                    File(<<>>, <<"secret", ".txt">>, 1, FALSE),
                    File(<<>>, <<"cache", ".pyc">>, 1, TRUE),
                    File(<<>>, <<".", "profile">>, 1, TRUE),
                    File(<<<<"src">>>>, <<"a", ".py">>, 1, TRUE),
                    File(<<<<"src">>, <<"pkg">>>>, <<"b", ".py">>, 1, TRUE),
                    File(<<<<"src">>, <<"pkg">>, <<"sub">>>>,
                         <<"c", ".py">>, 1, TRUE)}]]

TreeNames == {"plain", "deep"}

\* the roots a caller can pass: "proj", "./proj" and "build/proj", the same
\* tree checked out below a directory named build
RootSpellings == {<<<<"proj">>>>, <<Dot, <<"proj">>>>,
                  <<<<"build">>, <<"proj">>>>}

\* str(Path(p)): the "." components are dropped
PathOf(p) == SelectSeq(p, LAMBDA n : n # Dot)

\* os.path.join(root, name): the components as they were spelled
Join(root, name) == Append(root, name)

The(s) == CHOOSE x \in s : TRUE

\* a set as a list, in the order os.walk lists it
RECURSIVE Listing(_)
Listing(S) ==
    IF S = {} THEN <<>>
    ELSE LET x == CHOOSE y \in S : TRUE IN <<x>> \o Listing(S \ {x})

\* a check that leaves the rate alone until a first file was processed
CheckPerformanceAfterFirstFile(mem, el, fp) ==
    IF ~mem THEN "memory"
    ELSE IF el > 0 /\ fp > 0 /\ fp < FilesPerSecond * el THEN "rate"
    ELSE "ok"

\* DirectoryScanner._check_performance: the memory reading, then the rate
\* `files_processed / elapsed_time < files_per_second` once time has passed
CheckPerformance(mem, el, fp) ==
    IF ~mem THEN "memory"
    ELSE IF el > 0 /\ fp < FilesPerSecond * el THEN "rate"
    ELSE "ok"

\* DirectoryScanner._should_skip_path (no path of these trees is restricted)
ShouldSkipPath(p, isFile) ==
    \/ \E i \in 1..Len(PathOf(p)) : PathOf(p)[i] \in ExcludedDirectories
    \/ (isFile /\ MatchesExcludedFile(p[Len(p)]))

\* a walk that goes on with the next directory after a failed check
ContinueWalk(pending) == pending

\* `break` out of the os.walk loop: the directories os.walk would visit
\* next are dropped
BreakWalk(pending) == <<>>

\* a depth test that stops one level too late
DepthExceededLate(depth, d) == depth > d + 1

\* `current_depth > max_depth`
DepthExceeded(depth, d) == depth > d

\* DirectoryScanner._get_file_info_sync for an existing file: the
\* descriptor, and whether _files_processed is incremented
GetFileInfoSync(p, f) ==
    IF f.size > MaxFileSize
    THEN [info |-> [path |-> PathOf(p), size |-> f.size,
                    skipped |-> "size_limit_exceeded"], counted |-> FALSE]
    ELSE IF ~f.readable
    THEN [info |-> [path |-> PathOf(p), size |-> f.size,
                    skipped |-> "access_denied"], counted |-> FALSE]
    ELSE [info |-> [path |-> PathOf(p), size |-> f.size,
                    skipped |-> "none"], counted |-> TRUE]

\* the max_file_size a caller of SystemSaver.save can pass
Limits == {None, Some(1), Some(MaxFileSize + 1)}

\* `max_file_size or default`
EffectiveLimit(m) == IF m = None \/ m = Some(0) THEN MaxFileSize ELSE The(m)

\* what a scan is called with: SystemSaver.save passes max_depth None and
\* its own max_file_size to _process_file; other callers pass a max_depth
ScanCalls ==
    {[max_depth |-> None, limit |-> m] : m \in Limits}
    \cup {[max_depth |-> Some(d), limit |-> None] : d \in 0..MaxDepth}

\* ---- ContentProcessor.get_content_type ----------------------------------
\* A content type is the sequence of its pieces (see Contains above).
TextHtml == <<"text", "/html">>
TextCss == <<"text", "/css">>
TextPlain == <<"text", "/plain">>
AppJavascript == <<"application/", "javascript">>
AppJson == <<"application/", "json">>
AppYaml == <<"application/", "x-yaml">>
OctetStream == <<"application/", "octet-stream">>

\* mimetypes.guess_type(filename) after _setup_mimetypes, by the suffix of
\* the name: None for a name without a suffix or with an unknown one
GuessType(name) ==
    LET suffix == IF Len(name) > 1 THEN name[Len(name)] ELSE ""
    IN  CASE suffix = ".py" -> Some(<<"text", "/x-python">>)
          [] suffix = ".txt" -> Some(TextPlain)
          [] suffix = ".json" -> Some(AppJson)
          [] suffix = ".js" -> Some(AppJavascript)
          [] suffix = ".yaml" -> Some(AppYaml)
          [] suffix = ".bin" -> Some(OctetStream)
          [] suffix = ".odt" ->
                Some(<<"application/", "vnd.oasis.opendocument.", "text">>)
          [] OTHER -> None

\* what the tests of the classifier can find in a content: how it starts,
\* whether it holds a brace, a CSS property name, a JavaScript keyword,
\* whether it ends with a brace and json.loads accepts it, whether
\* yaml.safe_load accepts it, whether it holds a byte outside the text
\* bytes, and whether it can be encoded at all (a str with a lone surrogate
\* cannot).  A content that starts with a brace holds one, only such a
\* content passes the JSON test, and neither parser accepts binary bytes.
Contents ==
    {c \in [prefix : {"html", "brace", "other"}, brace : BOOLEAN,
            css : BOOLEAN, js : BOOLEAN, json : BOOLEAN, yaml : BOOLEAN,
            binary : BOOLEAN, encodes : BOOLEAN] :
        /\ c.prefix = "brace" => c.brace
        /\ c.json => c.prefix = "brace"
        /\ c.binary => ~c.json /\ ~c.yaml
        /\ ~c.encodes => /\ c.prefix = "other"
                         /\ ~c.brace /\ ~c.css /\ ~c.js /\ ~c.yaml /\ ~c.binary}

\* a classifier that tries JSON before the CSS and JavaScript heuristics
DetectContentTypeJsonFirst(c) ==
    IF c.prefix = "html" THEN TextHtml
    ELSE IF c.json THEN AppJson
    ELSE IF c.brace /\ c.css THEN TextCss
    ELSE IF c.js THEN AppJavascript
    ELSE IF c.yaml THEN AppYaml
    ELSE IF c.binary THEN OctetStream
    ELSE TextPlain

\* ContentProcessor._detect_content_type_from_content
DetectContentTypeFromContent(c) ==
    IF c.prefix = "html" THEN TextHtml
    ELSE IF c.brace /\ c.css THEN TextCss
    ELSE IF c.js THEN AppJavascript
    ELSE IF c.json THEN AppJson
    ELSE IF c.yaml THEN AppYaml
    ELSE IF c.binary THEN OctetStream
    ELSE TextPlain

\* ContentProcessor.get_content_type(content, filename); <<>> is no filename
GetContentType(c, name) ==
    IF ~c.encodes THEN OctetStream
    ELSE IF name # <<>> /\ GuessType(name) # None THEN The(GuessType(name))
    ELSE DetectContentTypeFromContent(c)

\* `'text' in content_type`
IsText(ct) == Contains(ct, <<"text">>)

\* SystemSaver._process_file on the path of a descriptor: whether safe_read
\* is called, whether the result carries content and the reason it gives
\* when it does not; chk is _check_resources, c what the file holds
ProcessFile(f, m, chk, c) ==
    IF ~chk THEN [read |-> FALSE, content |-> FALSE, skipped |-> "none"]
    ELSE IF f.size > EffectiveLimit(m)
    THEN [read |-> FALSE, content |-> FALSE,
          skipped |-> "size_limit_exceeded"]
    ELSE IF ~f.readable
    THEN [read |-> TRUE, content |-> FALSE, skipped |-> "read_error"]
    ELSE IF ~IsText(GetContentType(c, f.name))
    THEN [read |-> TRUE, content |-> FALSE, skipped |-> "binary_file"]
    ELSE [read |-> TRUE, content |-> TRUE, skipped |-> "none"]

outsideScan == <<scraperVars, saveVars, appVars, lockVars, writeVars,
                 extractVars, moreVars>>

\* DirectoryScanner() next to the tree t
NewScanner(t) ==
    /\ tree = "none"
    /\ tree' = t
    /\ UNCHANGED <<elapsed, files_processed, scanned_files, scan, listed,
                   yielded, scans, saved, outsideScan>>

\* time.time() moves on
ClockTick ==
    /\ tree # "none"
    /\ elapsed < MaxElapsed
    /\ elapsed' = elapsed + 1
    /\ UNCHANGED <<tree, files_processed, scanned_files, scan, listed,
                   yielded, scans, saved, outsideScan>>

\* scan_directory_async(root, max_depth) up to the first os.walk step
ScanStart(root, c) ==
    /\ tree # "none"
    /\ ~scan.active
    /\ scans < MaxScans
    /\ scans' = scans + 1
    /\ scan' = [active |-> TRUE, root |-> root, max_depth |-> c.max_depth,
                limit |-> c.limit, walk |-> <<<<>>>>, stopped |-> "none"]
    /\ listed' = {}
    /\ saved' = [NoSaved EXCEPT !.next = Len(yielded) + 1]
    /\ UNCHANGED <<tree, elapsed, files_processed, scanned_files, yielded,
                   outsideScan>>

\* one iteration of `for root, dirs, files in os.walk(directory_path)`
ScanStep(mem) ==
    /\ scan.active
    /\ LET d == Head(scan.walk)
           rest == Tail(scan.walk)
           t == Trees[tree]
           here == scan.root \o d
           perf == CheckPerformance(mem, elapsed, files_processed)
           subdirs == {e \in t.dirs : Len(e) = Len(d) + 1
                                      /\ SubSeq(e, 1, Len(d)) = d}
           kept == {e \in subdirs :
                      /\ ~ShouldSkipPath(Join(here, e[Len(e)]), FALSE)
                      /\ ~Hidden(e[Len(e)])}
           cand == {f \in t.files :
                      /\ f.dir = d
                      /\ Join(here, f.name) \notin scanned_files
                      /\ ~ShouldSkipPath(Join(here, f.name), TRUE)
                      /\ ~Hidden(f.name)}
           got == [i \in 1..Cardinality(cand) |->
                      LET f == Listing(cand)[i]
                      IN  GetFileInfoSync(Join(here, f.name), f)]
           ends(w, why) ==
               scan' = [scan EXCEPT !.walk = w, !.active = (w # <<>>),
                                    !.stopped = why]
       IN  /\ listed' = listed \cup {d}
           /\ IF perf # "ok"
              THEN /\ ends(BreakWalk(Listing(subdirs) \o rest), perf)
                   /\ UNCHANGED <<files_processed, scanned_files, yielded>>
              ELSE IF /\ scan.max_depth # None
                      /\ DepthExceeded(Len(d), The(scan.max_depth))
              THEN /\ ends(rest, "none")
                   /\ UNCHANGED <<files_processed, scanned_files, yielded>>
              ELSE /\ ends(Listing(kept) \o rest, "none")
                   /\ files_processed' = files_processed
                        + Cardinality({i \in DOMAIN got : got[i].counted})
                   /\ scanned_files' = scanned_files
                        \cup {got[i].info.path : i \in DOMAIN got}
                   /\ yielded' = yielded \o
                        [i \in DOMAIN got |->
                            [scan |-> scans, dir |-> d, info |-> got[i].info]]
    /\ UNCHANGED <<tree, elapsed, scans, saved, outsideScan>>

\* DirectoryScanner.clear_cache between two scans
ClearCache ==
    /\ tree # "none"
    /\ ~scan.active
    /\ scanned_files' = {}
    /\ files_processed' = 0
    /\ elapsed' = 0
    /\ yielded' = <<>>
    /\ scan' = NoScan
    /\ listed' = {}
    /\ saved' = NoSaved
    /\ UNCHANGED <<tree, scans, outsideScan>>

\* what the files of the trees hold: prose that yaml.safe_load accepts, or
\* bytes that no test accepts
ScannedContents ==
    {c \in Contents : /\ c.encodes /\ c.prefix = "other"
                      /\ ~c.brace /\ ~c.css /\ ~c.js
                      /\ c.yaml = ~c.binary}

\* SystemSaver.save takes the next descriptor off the generator and its
\* _process_file runs on `file_info['path']`
Consume(chk, c) ==
    /\ scan # NoScan
    /\ scan.max_depth = None
    /\ saved.next <= Len(yielded)
    /\ ~saved.persisted
    /\ LET info == yielded[saved.next].info
           f == CHOOSE g \in Trees[tree].files :
                    PathOf(Join(scan.root \o g.dir, g.name))
                        = info.path
           r == ProcessFile(f, scan.limit, chk, c)
       IN  saved' = [saved EXCEPT
                        !.next = @ + 1,
                        !.reads = IF r.read THEN @ \cup {info.path} ELSE @,
                        !.contents = IF r.content THEN @ \cup {info.path}
                                     ELSE @]
    /\ UNCHANGED <<tree, elapsed, files_processed, scanned_files, scan,
                   listed, yielded, scans, outsideScan>>

\* the `async for` of SystemSaver.save is over and every task is gathered:
\* safe_write is called with the document
Persist ==
    /\ scan # NoScan
    /\ ~scan.active
    /\ scan.max_depth = None
    /\ saved.next > Len(yielded)
    /\ ~saved.persisted
    /\ saved' = [saved EXCEPT !.persisted = TRUE]
    /\ UNCHANGED <<tree, elapsed, files_processed, scanned_files, scan,
                   listed, yielded, scans, outsideScan>>

\* ---- get_directory_structure -------------------------------------------
\* the names of the trees in the order `sorted(path.iterdir())` puts them
NameOrder ==
    << <<".", "git">>, <<".", "profile">>, <<"HEAD">>, <<"a", ".py">>,
       <<"b", ".py">>, <<"c", ".py">>, <<"cache", ".pyc">>, <<"config">>,
       <<"main", ".py">>, <<"model", ".bin">>, <<"pkg">>,
       <<"readme", ".txt">>, <<"secret", ".txt">>, <<"src">>, <<"sub">> >>

RECURSIVE Sorted(_)
Sorted(S) ==
    IF S = {} THEN <<>>
    ELSE LET rank(n) == CHOOSE i \in DOMAIN NameOrder : NameOrder[i] = n
             x == CHOOSE y \in S : \A z \in S : rank(y) <= rank(z)
         IN  <<x>> \o Sorted(S \ {x})

\* path.iterdir(): the names of the files and directories in d
ItemsOf(t, d) ==
    {f.name : f \in {g \in Trees[t].files : g.dir = d}}
    \cup {e[Len(e)] : e \in {g \in Trees[t].dirs :
                               Len(g) = Len(d) + 1 /\ SubSeq(g, 1, Len(d)) = d}}

\* the nodes _build_tree returns
Node(kind, children) == [kind |-> kind, children |-> children]

\* _build_tree(path, current_depth) for the directory d below the root, and
\* its loop over the sorted items; c is the call (tree, root, max_depth and
\* the readings of memory and clock, taken to be the same at every check of
\* one call), fp the counter _files_processed.  The descriptor of a file
\* over the size limit has no 'modified_at', so that appending it raises and
\* the handler returns an error node for the directory.
RECURSIVE BuildTree(_, _, _), BuildChildren(_, _, _, _, _)
BuildTree(c, d, fp) ==
    IF c.max_depth # None /\ DepthExceeded(Len(d), The(c.max_depth))
    THEN [node |-> Node("truncated", <<>>), fp |-> fp]
    ELSE IF CheckPerformance(c.mem, c.el, fp) # "ok"
    THEN [node |-> Node("error", <<>>), fp |-> fp]
    ELSE LET r == BuildChildren(c, d, Sorted(ItemsOf(c.tree, d)), <<>>, fp)
         IN  [node |-> IF r.raised THEN Node("error", <<>>)
                       ELSE Node("directory", r.children),
              fp |-> r.fp]

BuildChildren(c, d, items, kids, fp) ==
    IF items = <<>> THEN [children |-> kids, fp |-> fp, raised |-> FALSE]
    ELSE LET n == Head(items)
             p == Join(c.root \o d, n)
             isDir == Append(d, n) \in Trees[c.tree].dirs
         IN  IF ShouldSkipPath(p, ~isDir)
             THEN BuildChildren(c, d, Tail(items), kids, fp)
             ELSE IF isDir
             THEN LET b == BuildTree(c, Append(d, n), fp)
                  IN  BuildChildren(c, d, Tail(items), Append(kids, b.node),
                                    b.fp)
             ELSE LET f == CHOOSE g \in Trees[c.tree].files :
                               g.dir = d /\ g.name = n
                      g == GetFileInfoSync(p, f)
                  IN  IF g.info.skipped = "size_limit_exceeded"
                      THEN [children |-> kids, fp |-> fp, raised |-> TRUE]
                      ELSE BuildChildren(c, d, Tail(items),
                               Append(kids, Node("file", <<>>)),
                               IF g.counted THEN fp + 1 ELSE fp)

\* the max_depth a caller can pass
MaxDepths == {None} \cup {Some(d) : d \in 0..MaxDepth}

\* get_directory_structure(root, max_depth) on an existing directory; one
\* call is followed
GetDirectoryStructure(root, md, mem) ==
    /\ tree # "none"
    /\ structure = NoStructure
    /\ LET b == BuildTree([tree |-> tree, root |-> PathOf(root),
                           max_depth |-> md, mem |-> mem, el |-> elapsed],
                          <<>>, files_processed)
       IN  /\ structure' = b.node
           /\ files_processed' = b.fp
    /\ UNCHANGED <<tree, elapsed, scanned_files, scan, listed, yielded, scans,
                   saved, job, workers, scraperVars, saveVars, appVars,
                   lockVars, writeVars, extractVars>>

NextScan ==
    \/ \E t \in TreeNames : NewScanner(t)
    \/ ClockTick
    \/ \E root \in RootSpellings, c \in ScanCalls : ScanStart(root, c)
    \/ \E mem \in BOOLEAN : ScanStep(mem)
    \/ ClearCache
    \/ \E chk \in BOOLEAN, c \in ScannedContents : Consume(chk, c)
    \/ Persist

SpecScan == Init /\ [][NextScan]_vars

\* the scanner with both of its entry points, and nobody consuming
NextTree ==
    \/ \E t \in TreeNames : NewScanner(t)
    \/ ClockTick
    \/ \E root \in RootSpellings, c \in ScanCalls : ScanStart(root, c)
    \/ \E mem \in BOOLEAN : ScanStep(mem)
    \/ ClearCache
    \/ \E root \in RootSpellings, md \in MaxDepths, mem \in BOOLEAN :
          GetDirectoryStructure(root, md, mem)

SpecTree == Init /\ [][NextTree]_vars

\* ------------------------------------------------------------------------
\* ContentProcessor.get_content_type and SystemSaver._process_file, applied
\* to one input each
\* ------------------------------------------------------------------------
\* the file names a caller passes: none, one without a suffix, and one for
\* each suffix of GuessType
FileNames ==
    {<<>>, <<"README">>, <<"a", ".py">>, <<"a", ".txt">>, <<"a", ".json">>,
     <<"a", ".js">>, <<"a", ".yaml">>, <<"a", ".bin">>, <<"a", ".odt">>}

\* get_content_type(content, filename) is called, for any content and
\* file name, and returns
Classify ==
    /\ job.op = "none"
    /\ \E c \in Contents, name \in FileNames :
          job' = [op |-> "classify", content |-> c,
                  file |-> File(<<>>, name, 0, TRUE), limit |-> None,
                  chk |-> TRUE, type |-> GetContentType(c, name),
                  out |-> NoJob.out]
    /\ UNCHANGED <<scraperVars, saveVars, appVars, scanVars, lockVars,
                   writeVars, extractVars, structure, workers>>

\* _process_file(path, max_file_size) is called on an existing file, for
\* any file, limit, verdict of _check_resources and content, and returns
ProcessOne ==
    /\ job.op = "none"
    /\ \E name \in FileNames \ {<<>>}, sz \in {1, MaxFileSize + 1},
          rd \in BOOLEAN, m \in Limits, chk \in BOOLEAN, c \in Contents :
          LET f == File(<<>>, name, sz, rd)
          IN  job' = [op |-> "process", content |-> c, file |-> f,
                      limit |-> m, chk |-> chk,
                      type |-> GetContentType(c, name),
                      out |-> ProcessFile(f, m, chk, c)]
    /\ UNCHANGED <<scraperVars, saveVars, appVars, scanVars, lockVars,
                   writeVars, extractVars, structure, workers>>

NextProcess ==
    \/ Classify
    \/ ProcessOne

SpecProcess == Init /\ [][NextProcess]_vars

\* ------------------------------------------------------------------------
\* The worker threads of DirectoryScanner._executor: the tasks of one
\* directory, gathered together, run _get_file_info_sync side by side.
\* `self._files_processed += 1` is a read and a write of the attribute with
\* no lock around them, so another thread can run in between.
\* ------------------------------------------------------------------------
Workers == 1..NumWorkers

\* the files of the directory: two regular ones, one over the size limit,
\* one that cannot be read
PoolFiles ==
    {File(<<>>, <<"a", ".py">>, 1, TRUE),
     File(<<>>, <<"b", ".py">>, 1, TRUE),
     File(<<>>, <<"model", ".bin">>, MaxFileSize + 1, TRUE),
     File(<<>>, <<"secret", ".txt">>, 1, FALSE)}

\* run_in_executor(self._executor, self._get_file_info_sync, file_path): a
\* free thread takes the task of a file no other task is about
PoolSubmit(w, f) ==
    /\ workers[w].pc = "free"
    /\ \A v \in Workers : workers[v].pc = "free" \/ workers[v].file # f
    /\ workers' = [workers EXCEPT ![w] = [@ EXCEPT !.pc = "run", !.file = f]]
    /\ UNCHANGED <<files_processed, tree, elapsed, scanned_files, scan,
                   listed, yielded, scans, saved, structure, job, scraperVars,
                   saveVars, appVars, lockVars, writeVars, extractVars>>

\* the thread runs _get_file_info_sync up to the read of the counter, or to
\* its end for a file that is not counted
PoolLoad(w) ==
    /\ workers[w].pc = "run"
    /\ LET f == workers[w].file
           g == GetFileInfoSync(Join(<<<<"proj">>>>, f.name), f)
       IN  workers' = [workers EXCEPT ![w] =
              IF g.counted
              THEN [@ EXCEPT !.pc = "loaded", !.seen = files_processed]
              ELSE [@ EXCEPT !.pc = "done", !.skipped = g.info.skipped]]
    /\ UNCHANGED <<files_processed, tree, elapsed, scanned_files, scan,
                   listed, yielded, scans, saved, structure, job, scraperVars,
                   saveVars, appVars, lockVars, writeVars, extractVars>>

\* the thread writes the counter and returns the descriptor
PoolStore(w) ==
    /\ workers[w].pc = "loaded"
    /\ files_processed' = workers[w].seen + 1
    /\ workers' = [workers EXCEPT ![w] = [@ EXCEPT !.pc = "done"]]
    /\ UNCHANGED <<tree, elapsed, scanned_files, scan, listed, yielded, scans,
                   saved, structure, job, scraperVars, saveVars, appVars,
                   lockVars, writeVars, extractVars>>

NextCount ==
    \/ \E w \in Workers, f \in PoolFiles : PoolSubmit(w, f)
    \/ \E w \in Workers : PoolLoad(w)
    \/ \E w \in Workers : PoolStore(w)

SpecCount == Init /\ [][NextCount]_vars

\* ------------------------------------------------------------------------
\* FileManager._file_lock: callers in separate processes, one lock path
\* ------------------------------------------------------------------------
outsideLock == <<scraperVars, saveVars, appVars, scanVars, writeVars,
                 extractVars, moreVars>>

\* `lock_file = open(lock_path, 'w')`: the file of that name is opened, and
\* created first when there is none
LockOpen(p) ==
    /\ procs[p].pc = "out"
    /\ procs[p].tries < MaxTries
    /\ IF lockPath = 0
       THEN /\ created' = created + 1
            /\ lockPath' = created + 1
       ELSE UNCHANGED <<created, lockPath>>
    /\ procs' = [procs EXCEPT ![p] = [pc |-> "opened", fd |-> lockPath',
                                      tries |-> @.tries + 1]]
    /\ UNCHANGED <<holder, outsideLock>>

\* whether flock(LOCK_EX | LOCK_NB) on the open file f is granted: no other
\* open of the same file holds the lock
Granted(f, h) == h[f] = 0

\* `fcntl.flock(lock_file.fileno(), LOCK_EX | LOCK_NB)`: granted, the caller
\* enters the body of the `with`; refused, IOError is raised and the
\* `finally` of _file_lock runs next
LockTry(p) ==
    /\ procs[p].pc = "opened"
    /\ IF Granted(procs[p].fd, holder)
       THEN /\ holder' = [holder EXCEPT ![procs[p].fd] = p]
            /\ procs' = [procs EXCEPT ![p].pc = "inside"]
       ELSE /\ procs' = [procs EXCEPT ![p].pc = "failed"]
            /\ UNCHANGED holder
    /\ UNCHANGED <<lockPath, created, outsideLock>>

\* `finally: fcntl.flock(lock_file.fileno(), LOCK_UN)`, reached from the end
\* of the body and from a refused attempt alike
LockUnlock(p) ==
    /\ procs[p].pc \in {"inside", "failed"}
    /\ holder' = [f \in LockFiles |->
                    IF f = procs[p].fd /\ holder[f] = p THEN 0 ELSE holder[f]]
    /\ procs' = [procs EXCEPT ![p].pc = "unlocked"]
    /\ UNCHANGED <<lockPath, created, outsideLock>>

\* `lock_file.close()`
LockClose(p) ==
    /\ procs[p].pc = "unlocked"
    /\ procs' = [procs EXCEPT ![p].pc = "closed", ![p].fd = 0]
    /\ UNCHANGED <<lockPath, created, holder, outsideLock>>

\* `os.remove(lock_path)`, OSError ignored: whatever file has the name now
\* loses it
LockRemove(p) ==
    /\ procs[p].pc = "closed"
    /\ lockPath' = 0
    /\ procs' = [procs EXCEPT ![p].pc = "out"]
    /\ UNCHANGED <<created, holder, outsideLock>>

NextLock ==
    \/ \E p \in Procs : LockOpen(p)
    \/ \E p \in Procs : LockTry(p)
    \/ \E p \in Procs : LockUnlock(p)
    \/ \E p \in Procs : LockClose(p)
    \/ \E p \in Procs : LockRemove(p)

SpecLock == Init /\ [][NextLock]_vars

\* ------------------------------------------------------------------------
\* FileManager.safe_write, one call, step by step
\* ------------------------------------------------------------------------
\* what one call finds: whether the target exists, the verdicts of
\* validate_path, _check_memory_usage and of the free-space comparison,
\* whether mkstemp succeeds, whether the lock is free, whether mode is
\* binary while encoding is passed, and the platform
WriteInputs ==
    [exists : BOOLEAN, valid : BOOLEAN, memory : BOOLEAN, space : BOOLEAN,
     mkstemp : BOOLEAN, lockFree : BOOLEAN, binary : BOOLEAN,
     platform : {"posix", "windows"}]

outsideWrite == <<scraperVars, saveVars, appVars, scanVars, lockVars,
                  extractVars, moreVars>>

\* shutil.disk_usage(path) on the target path: os.statvfs raises
\* FileNotFoundError for a path that does not exist
DiskUsage(exists, space) ==
    IF ~exists THEN "raises" ELSE IF space THEN "enough" ELSE "short"

\* the call ends with value v
WriteEnds(v) == wcall' = [wcall EXCEPT !.pc = "done", !.ret = v]

\* safe_write(path, content, mode, encoding) up to `try:`; nothing here is
\* inside the try, so an exception leaves safe_write
SafeWriteChecks(i) ==
    /\ wcall.pc = "idle"
    /\ target' = IF i.exists THEN "old" ELSE "absent"
    /\ LET c == [wcall EXCEPT !.in = Some(i)]
       IN  IF ~i.valid \/ ~i.memory
           THEN /\ wcall' = [c EXCEPT !.pc = "done", !.ret = "false"]
                /\ UNCHANGED temp
           ELSE IF DiskUsage(i.exists, i.space) = "raises"
           THEN /\ wcall' = [c EXCEPT !.pc = "done", !.ret = "raised"]
                /\ UNCHANGED temp
           ELSE IF DiskUsage(i.exists, i.space) = "short"
           THEN /\ wcall' = [c EXCEPT !.pc = "done", !.ret = "false"]
                /\ UNCHANGED temp
           ELSE IF ~i.mkstemp
           THEN /\ wcall' = [c EXCEPT !.pc = "done", !.ret = "raised"]
                /\ UNCHANGED temp
           ELSE /\ wcall' = [c EXCEPT !.pc = "lock"]
                /\ temp' = "empty"
    /\ UNCHANGED <<backup, outsideWrite>>

\* `with self._file_lock(path)`: a refused lock raises IOError, which the
\* handler of safe_write turns into False
SafeWriteLock ==
    /\ wcall.pc = "lock"
    /\ IF The(wcall.in).lockFree
       THEN wcall' = [wcall EXCEPT !.pc = "temp"]
       ELSE WriteEnds("false")
    /\ UNCHANGED <<target, backup, temp, outsideWrite>>

\* `with os.fdopen(temp_fd, mode, encoding=encoding) as f: f.write(content)`
\* os.fdopen refuses an encoding in binary mode; the write itself can fail
SafeWriteTemp(ok) ==
    /\ wcall.pc = "temp"
    /\ IF The(wcall.in).binary
       THEN /\ WriteEnds("false")
            /\ UNCHANGED temp
       ELSE IF ~ok
       THEN /\ WriteEnds("false")
            /\ temp' = "partial"
       ELSE /\ wcall' = [wcall EXCEPT !.pc = "backup"]
            /\ temp' = "new"
    /\ UNCHANGED <<target, backup, outsideWrite>>

\* `if os.path.exists(path): shutil.copy2(path, backup_path)`
SafeWriteBackup(ok) ==
    /\ wcall.pc = "backup"
    /\ IF target = "absent"
       THEN /\ wcall' = [wcall EXCEPT !.pc = "move"]
            /\ UNCHANGED backup
       ELSE IF ~ok
       THEN /\ WriteEnds("false")
            /\ backup' = "partial"
       ELSE /\ wcall' = [wcall EXCEPT !.pc = "move"]
            /\ backup' = target
    /\ UNCHANGED <<target, temp, outsideWrite>>

\* what shutil.move(temp_path, path) does inside one directory: os.rename,
\* which replaces the target in one step on POSIX and raises on Windows when
\* the target exists, where shutil.move then copies over the target
MoveKind(platform, tgt) ==
    IF platform = "windows" /\ tgt # "absent" THEN "copy" ELSE "rename"

\* `shutil.move(temp_path, path)`, then `return True` for a rename
SafeWriteMove ==
    /\ wcall.pc = "move"
    /\ IF MoveKind(The(wcall.in).platform, target) = "rename"
       THEN /\ target' = temp
            /\ temp' = "absent"
            /\ WriteEnds("true")
       ELSE /\ target' = "partial"
            /\ wcall' = [wcall EXCEPT !.pc = "copy"]
            /\ UNCHANGED temp
    /\ UNCHANGED <<backup, outsideWrite>>

\* the copy of shutil.move ends: the target is complete and the temporary
\* file unlinked, or the copy raised part-way
SafeWriteCopy(ok) ==
    /\ wcall.pc = "copy"
    /\ IF ok
       THEN /\ target' = temp
            /\ temp' = "absent"
            /\ WriteEnds("true")
       ELSE /\ WriteEnds("false")
            /\ UNCHANGED <<target, temp>>
    /\ UNCHANGED <<backup, outsideWrite>>

NextWrite ==
    \/ \E i \in WriteInputs : SafeWriteChecks(i)
    \/ SafeWriteLock
    \/ \E ok \in BOOLEAN : SafeWriteTemp(ok)
    \/ \E ok \in BOOLEAN : SafeWriteBackup(ok)
    \/ SafeWriteMove
    \/ \E ok \in BOOLEAN : SafeWriteCopy(ok)

SpecWrite == Init /\ [][NextWrite]_vars

\* ------------------------------------------------------------------------
\* SiteSaver._extract_and_save_resources: from the soup to the task list
\* ------------------------------------------------------------------------
\* A reference as it stands in a src attribute: scheme and host when it has
\* them, whether its path starts at the root, and the segments of the path.
Ref(s, n, r, p) == [scheme |-> s, netloc |-> n, rooted |-> r, path |-> p]

\* src=""
EmptyRef == Ref("", "", FALSE, <<>>)

\* the src attributes of the model: none, "", "a.png", "b.png", "/p/a.png"
\* and "https://x.test/p/a.png"
Srcs ==
    {None, Some(EmptyRef),
     Some(Ref("", "", FALSE, <<"a.png">>)),
     Some(Ref("", "", FALSE, <<"b.png">>)),
     Some(Ref("", "", TRUE, <<"p", "a.png">>)),
     Some(Ref("https", "x.test", TRUE, <<"p", "a.png">>))}

\* the elements of a page that carry a src
TagNames == {"img", "video", "source", "script"}
Tags == [name : TagNames, src : Srcs]

\* the pages of the model, as the list of such elements in document order
RECURSIVE Pages(_)
Pages(n) ==
    IF n = 0 THEN {<<>>}
    ELSE Pages(n - 1)
         \cup {Append(h, t) : h \in {g \in Pages(n - 1) : Len(g) = n - 1},
                              t \in Tags}

\* the page URLs: https://x.test/p/ and https://x.test/p
PageUrls ==
    {[scheme |-> "https", netloc |-> "x.test", path |-> <<"p", "">>],
     [scheme |-> "https", netloc |-> "x.test", path |-> <<"p">>]}

Front(s) == SubSeq(s, 1, Len(s) - 1)

\* a join that appends the reference to the whole path of the base
UrljoinAppend(base, ref) ==
    IF ref.scheme # ""
    THEN [scheme |-> ref.scheme, netloc |-> ref.netloc, path |-> ref.path]
    ELSE IF ref.rooted
    THEN [scheme |-> base.scheme, netloc |-> base.netloc, path |-> ref.path]
    ELSE [scheme |-> base.scheme, netloc |-> base.netloc,
          path |-> base.path \o ref.path]

\* urllib.parse.urljoin(base_url, src): a reference with a scheme stands for
\* itself, a rooted one replaces the path of the base, a relative one the
\* last segment of that path
Urljoin(base, ref) ==
    IF ref.scheme # ""
    THEN [scheme |-> ref.scheme, netloc |-> ref.netloc, path |-> ref.path]
    ELSE IF ref.rooted
    THEN [scheme |-> base.scheme, netloc |-> base.netloc, path |-> ref.path]
    ELSE [scheme |-> base.scheme, netloc |-> base.netloc,
          path |-> Front(base.path) \o ref.path]

\* `src = tag.get('src')`, `if src:`
HasSrc(t) == t.src # None /\ t.src # Some(EmptyRef)

\* one of the two loops: a task for every found element with a src
RECURSIVE Collect(_, _, _, _)
Collect(h, names, base, type) ==
    IF h = <<>> THEN <<>>
    ELSE LET t == Head(h)
             more == Collect(Tail(h), names, base, type)
         IN  IF t.name \in names /\ HasSrc(t)
             THEN <<[url |-> Urljoin(base, The(t.src)),
                     resource_type |-> type]>> \o more
             ELSE more

outsideExtract == <<scraperVars, saveVars, appVars, scanVars, lockVars,
                    writeVars, moreVars>>

\* _extract_and_save_resources(soup, base_url, dirs) is called, for any
\* page URL and any page
ExtractBegin ==
    /\ extract.pc = "idle"
    /\ \E b \in PageUrls, h \in Pages(MaxTags) :
          /\ html' = h
          /\ extract' = [NoExtract EXCEPT !.pc = "images", !.base = Some(b)]
    /\ UNCHANGED outsideExtract

\* `for img in soup.find_all('img')`
ExtractImages ==
    /\ extract.pc = "images"
    /\ extract' = [extract EXCEPT
                     !.pc = "videos",
                     !.image_tasks =
                        Collect(html, {"img"}, The(extract.base), "images")]
    /\ UNCHANGED <<html, outsideExtract>>

\* `for video in soup.find_all(['video', 'source'])`, then
\* `all_tasks = image_tasks + video_tasks` up to the gather
ExtractVideos ==
    /\ extract.pc = "videos"
    /\ LET v == Collect(html, {"video", "source"}, The(extract.base), "videos")
       IN  extract' = [extract EXCEPT !.pc = "gather", !.video_tasks = v,
                                      !.all_tasks = extract.image_tasks \o v]
    /\ UNCHANGED <<html, outsideExtract>>

NextExtract ==
    \/ ExtractBegin
    \/ ExtractImages
    \/ ExtractVideos

SpecExtract == Init /\ [][NextExtract]_vars

\* ------------------------------------------------------------------------
\* Properties
\* ------------------------------------------------------------------------
\* the calls that acquired a connection slot and have not released it
SlotHolders == CountIn({r \in Frames : r.slot}, calls)

\* the calls between taking and giving back the concurrency permit
InSection == CountIn({r \in Frames : r.pc \in {"check", "get", "read"}}, calls)

\* C1: at every moment the number of calls that acquired a connection slot
\* and have not yet released it is at most the connection limit.
C1_SlotsBounded == SlotHolders <= ConnectionLimit

\* C2: on a new limiter the first ConnectionLimit acquire_connection calls
\* return True and every further one, with no release in between, returns
\* False; an acquire that returns False leaves the counter as it was; the
\* acquire that follows a release returns True.
C2_AcquireAtLimit ==
    \A k \in 1..Len(connTrace) :
        LET before == IF k = 1 THEN 0 ELSE connTrace[k - 1].after
        IN  /\ (\A j \in 1..k : connTrace[j].op = "acquire")
                  => /\ connTrace[k].ok <=> k <= ConnectionLimit
                     /\ connTrace[k].after =
                           IF k <= ConnectionLimit THEN k ELSE ConnectionLimit
            /\ (connTrace[k].op = "acquire" /\ ~connTrace[k].ok)
                  => connTrace[k].after = before
            /\ (k > 1 /\ connTrace[k].op = "acquire"
                      /\ connTrace[k - 1].op = "release")
                  => connTrace[k].ok

\* C2 witness: ConnectionLimit acquires, a refused one, a release, and an
\* acquire that succeeds again
C2_Witness ==
    /\ Len(connTrace) = ConnectionLimit + 3
    /\ \A j \in 1..(ConnectionLimit + 1) : connTrace[j].op = "acquire"
    /\ ~connTrace[ConnectionLimit + 1].ok
    /\ connTrace[ConnectionLimit + 2].op = "release"
    /\ connTrace[ConnectionLimit + 3].op = "acquire"
    /\ connTrace[ConnectionLimit + 3].ok

\* C3: every unit of the limiter's connection counter belongs to a call in
\* progress that acquired it and has not run its `finally` yet; so when no
\* call is in progress the counter is 0.
C3_SlotsReleased ==
    /\ active_connections <= SlotHolders
    /\ calls = EmptyBag => active_connections = 0

\* C3 witness: all calls are over, the last one after a refused bandwidth
\* reservation
C3_Witness ==
    /\ started = NumCalls
    /\ calls = EmptyBag
    /\ active_connections = 0
    /\ returned.kind = "resource"
    /\ returned.value.error = Some("bandwidth-limit")

\* whether all reservations before the k-th are more than a second older
Expired(k) ==
    \A j \in 1..(k - 1) : hist[k].ts - hist[j].ts > WindowSeconds

\* C4: a reservation of max_bandwidth bytes made when every earlier sample
\* is more than a second old (or there is none) is accepted; a reservation
\* of max_bandwidth bytes made within a second of an earlier reservation of
\* max_bandwidth bytes is rejected.
C4_TwoFullReservations ==
    \A k \in 1..Len(hist) :
        hist[k].bs = MaxBandwidth =>
            /\ Expired(k) => hist[k].ok
            /\ (\E i \in 1..(k - 1) :
                    /\ hist[i].bs = MaxBandwidth
                    /\ hist[k].ts - hist[i].ts <= WindowSeconds)
                  => ~hist[k].ok

\* C4 witness: accepted, rejected within the same second, accepted again
\* more than a second later
C4_Witness ==
    /\ Len(hist) = 3
    /\ \A k \in 1..3 : hist[k].bs = MaxBandwidth
    /\ hist[2].ts - hist[1].ts <= WindowSeconds
    /\ hist[3].ts - hist[2].ts > WindowSeconds
    /\ hist[1].ok /\ ~hist[2].ok /\ hist[3].ok

\* the bytes of the reservations before the k-th that are at most a second
\* older than it, accepted or not
RECURSIVE RecentBytes(_, _)
RecentBytes(k, j) ==
    IF j = 0 THEN 0
    ELSE (IF hist[k].ts - hist[j].ts <= WindowSeconds THEN hist[j].bs ELSE 0)
         + RecentBytes(k, j - 1)

\* the samples of the reservations 1..k that are at most a second older
\* than the k-th
RECURSIVE RecentSamples(_, _)
RecentSamples(k, j) ==
    IF j = 0 THEN <<>>
    ELSE RecentSamples(k, j - 1) \o
         (IF hist[k].ts - hist[j].ts <= WindowSeconds
          THEN <<[ts |-> hist[j].ts, bs |-> hist[j].bs]>> ELSE <<>>)

C6_PermitsBounded ==
    /\ InSection <= MaxConcurrent
    /\ sem + InSection = MaxConcurrent

\* C6 witness: the section is full and another call waits for a permit
C6_Witness ==
    /\ InSection = MaxConcurrent
    /\ sem = 0
    /\ \E r \in Frames : r.pc = "sem"

\* C7: a call whose GET is in flight has passed, in this order, the dedup
\* check, URL validation, the connection slot, the permit and the resource
\* check, and holds the slot and the permit; a call that returns without
\* having passed all gates has issued no GET.
C7_GatesBeforeGet ==
    /\ \A r \in Frames :
          (r.issued \/ r.pc \in {"get", "read"})
              => r.gates = AllGates /\ r.slot /\ r.permit
    /\ returned.issued => returned.gates = AllGates

\* C7 witness: a GET is in flight while another call waits for a permit
C7_Witness ==
    \E r, q \in Frames : r.pc = "get" /\ r.issued /\ q.pc = "sem"

\* C8: within one run, for every URL at most one call performs the
\* transfer and returns a successful result.
C8_OneSuccessPerUrl == \A u \in URLs : fetched[u] <= 1

\* C9: a DownloadResult returned by download_resource has a content iff
\* success is true, and an error reason iff success is false.
C9_ContentIffSuccess ==
    (returned.kind = "resource" /\ returned.value.state = "returned")
        => /\ returned.value.content # None <=> returned.value.success
           /\ returned.value.error # None <=> ~returned.value.success

\* C9 witness: a successful download of an empty body
C9_Witness ==
    /\ returned.kind = "resource"
    /\ returned.value.state = "returned"
    /\ returned.value.success
    /\ returned.value.content = Some(0)

FailureReasons ==
    {"duplicate-url", "invalid-protocol", "invalid-url-format",
     "connection-limit", "resource-limit", "invalid-content-type",
     "size-exceeded", "bandwidth-limit", "transport-error",
     "unexpected-error"}

\* C10: no call raises: a download_resource that does not succeed returns a
\* DownloadResult with success false and one of the failure reasons, a
\* get_page that does not succeed returns None; a call that stopped before
\* the last gate does not succeed.
C10_NeverRaises ==
    returned.kind # "none" =>
        /\ returned.value.state = "returned"
        /\ (returned.kind = "resource" /\ ~returned.value.success)
              => \E x \in FailureReasons : returned.value.error = Some(x)
        /\ returned.gates # AllGates => ~IsSuccess(returned.kind, returned.value)

\* C10 witness: an exception that is no ClientError ends as a failed result
C10_Witness ==
    /\ returned.kind = "resource"
    /\ returned.value.state = "returned"
    /\ returned.value.error = Some("unexpected-error")

\* whether the step that just ended a call ended it on response headers
\* that declare a content-length greater than max_size
DeclaredTooLarge(ret) ==
    /\ ret.ctype # NoType
    /\ ret.header.present
    /\ ret.header.numeric
    /\ ret.header.value > MaxFileSize

C12_ProgressMonotone ==
    /\ \A i \in 1..Len(reports) : reports[i] >= 0 /\ reports[i] <= Percent(100)
    /\ \A i \in 1..(Len(reports) - 1) : reports[i] <= reports[i + 1]
    /\ reports # <<>> => progress = reports[Len(reports)]

\* C12 witness: a system-mode run whose batches added more than 100 in
\* all: the cap held the value before the write stage reported again
C12_Witness ==
    /\ mode = "system"
    /\ result = "true"
    /\ Len(reports) >= 2
    /\ reports[Len(reports) - 1] = Percent(100)
    /\ total_files = 2 * BatchSize
    /\ processed_files = total_files

\* C13: whenever save returns true, the last value passed to the progress
\* callback is exactly 100.
C13_EndsAtHundred ==
    (result = "true" /\ callback)
        => reports # <<>> /\ reports[Len(reports)] = Percent(100)

\* C14: when a system-mode run reaches the write of the document,
\* processed_files + skipped_files + error_files equals total_files, and
\* every item the scan yielded is counted in one of the three.
C14_StatisticsAddUp ==
    (mode = "system" /\ stage = "write")
        => /\ stats.processed_files + stats.skipped_files + stats.error_files
                 = total_files
           /\ stats.processed_files + stats.skipped_files + stats.error_files
                 = observed

\* C15: in system mode at most one batch of BatchSize tasks exists or runs
\* at any time, and the statistics and the contents list change only in a
\* step taken when every task of the gathered batch has ended.
C15_BatchBarrier ==
    [][ mode' = "system" =>
          /\ batch'.size <= BatchSize
          /\ batch'.pending <= batch'.size
          /\ (stats' # stats \/ contents' # contents)
                => /\ stage \in {"batch", "rest"}
                   /\ batch.size > 0
                   /\ batch.pending = 0
                   /\ batch.content + batch.skipped + batch.none = batch.size
      ]_vars

\* C15 witness: a task of the second batch is running while the results of
\* the first batch are counted
C15_Witness ==
    /\ mode = "system"
    /\ stage = "batch"
    /\ batch.pending = 1
    /\ processed_files = BatchSize
    /\ stats.processed_files + stats.skipped_files > 0

\* C16: the document is written at most once and only when every task of
\* the run has ended; a run that ends without the document (failed or
\* interrupted) leaves no document and no other output of the run on disk.
C16_NoPartialOutput ==
    /\ written <= 1
    /\ written = 1
          => /\ \A k \in DOMAIN tasks : tasks[k].pending = 0
             /\ batch.pending = 0
    /\ (stage = "done" /\ result # "true")
          => /\ written = 0
             /\ ~siteDirs
             /\ files = 0

\* C17: save returns true iff the final write put the document in place;
\* when the write fails save returns false, logs an error and the write
\* stage leaves the progress and the reported values as they were.
C17_TrueIffWritten ==
    [][ /\ result' = "true" <=> written' = 1
        /\ (stage = "write" /\ stage' = "done" /\ written' = written)
              => /\ result' = "false"
                 /\ "write-failed" \in log'
                 /\ progress' = progress
                 /\ reports' = reports
      ]_vars

\* C17 witness: a site-mode run whose tasks reported progress and whose
\* final write failed
C17_Witness ==
    /\ mode = "site"
    /\ result = "false"
    /\ "write-failed" \in log
    /\ Len(reports) > 2

\* C18: a site-mode save given no URL or a URL whose protocol is not
\* allowed returns false and logs an error, with no directory created, no
\* network request made and no value passed to the progress callback.
C18_RejectedAtOnce ==
    (mode = "site" /\ (input = NoUrl \/ input.scheme \notin AllowedProtocols))
        => /\ stage = "done"
           /\ result = "false"
           /\ log \in {{"no-url"}, {"invalid-protocol"}}
           /\ ~siteDirs
           /\ ~requested
           /\ reports = <<>>
           /\ written = 0

\* C18 witness: a save called with an ftp URL and a callback
C18_Witness ==
    /\ mode = "site"
    /\ input.scheme = "ftp"
    /\ callback
    /\ result = "false"

\* the ways a get_page request fails
PageFailures ==
    {"invalid-url-format", "resource-limit", "transport-error",
     "unexpected-error"}

\* C19: when the request for the main page fails, site-mode save returns
\* false and logs an error, and no document is written.
C19_PageFailureFails ==
    (mode = "site" /\ page.outcome \in PageFailures)
        => /\ stage = "done"
           /\ result = "false"
           /\ "page-failed" \in log
           /\ written = 0

\* C19 witness: the GET of the main page was issued and failed
C19_Witness ==
    /\ mode = "site"
    /\ page.outcome = "transport-error"
    /\ requested
    /\ result = "false"

\* C20: in site mode, once the page is fetched, no failed resource task
\* fails the run: every task ends before the write, only a failed write
\* makes save return false, and save returns true with the document
\* written.
C20_ResourceFailuresNotFatal ==
    (mode = "site" /\ page.outcome = "soup")
        => /\ result = "false" => "write-failed" \in log
           /\ result = "true" => written = 1
           /\ (stage = "write" \/ result \in {"true", "false"})
                 => /\ \A k \in DOMAIN tasks : tasks[k].pending = 0
                    /\ tasks.resources.size = page.resources
                    /\ tasks.css.size = page.css
                    /\ tasks.js.size = page.js

\* C20 witness: save returned true although every download and a
\* stylesheet failed while a script succeeded
C20_Witness ==
    /\ mode = "site"
    /\ result = "true"
    /\ written = 1
    /\ tasks.resources.size = MaxTasks
    /\ tasks.resources.ok = 0
    /\ tasks.css.size > tasks.css.ok
    /\ tasks.js.ok > 0

\* C21: a resource-budget violation seen by one operation of a run, the
\* fetch of the main page included, only declines that operation: the run
\* does not end in failure because of it.
C21_BudgetViolationNotFatal ==
    (mode = "site" /\ page.outcome = "resource-limit") => result # "false"

\* C28: in site mode every image or video whose download succeeds with the
\* content type its tag asks for, while memory and CPU are under their
\* ceilings and the disk is writable, is written under images/ or videos/
\* and is entered in the document's list.
C28_QualifiedResourceSaved ==
    mode = "site" => (qualified <= files /\ qualified <= tasks.resources.ok)

\* C29: the run exits with code 0 exactly when the save of the selected
\* pipeline returned True; a save that returned False, a keyboard interrupt
\* and an exception that reaches run_async all give a non-zero code.
C29_ExitCode ==
    exitCode # None =>
        /\ exitCode \in {Some(0), Some(1)}
        /\ (exitCode = Some(0)) <=> (result = "true")

C29_Witness ==
    /\ exitCode = Some(0)
    /\ result = "true"
    /\ written = 1

\* the depth, below the root of the scan, of the directory a yielded
\* descriptor lies in
DepthOf(y) == Len(y.info.path) - Len(PathOf(scan.root)) - 1

\* C22: a scan with max_depth d yields only files of directories at depth
\* at most d (d = 0: the files of the root itself), and os.walk never lists
\* a directory below one that exceeds d.
C22_DepthBound ==
    scan.max_depth # None =>
        /\ \A i \in DOMAIN yielded :
              yielded[i].scan = scans => DepthOf(yielded[i]) <= The(scan.max_depth)
        /\ \A v \in listed : Len(v) <= The(scan.max_depth) + 1

C22_Witness ==
    /\ tree = "deep"
    /\ scan.max_depth = Some(0)
    /\ ~scan.active
    /\ listed = {<<>>, <<<<"src">>>>}
    /\ \E i \in DOMAIN yielded : yielded[i].scan = scans /\ DepthOf(yielded[i]) = 0

\* C23: the first scan of a newly constructed scanner over a root that holds
\* a .git directory with files and one regular file yields exactly one
\* descriptor, that of the regular file.
C23_OneDescriptor ==
    (/\ tree = "plain"
     /\ scans = 1
     /\ scan # NoScan
     /\ ~scan.active
     /\ scan.stopped # "memory")
    => /\ Len(yielded) = 1
       /\ yielded[1].info.path = PathOf(Join(scan.root, <<"main", ".py">>))

\* C24: in system mode a file whose descriptor carries a skip reason is
\* never read and gets no content entry, whatever max_file_size the caller
\* of save passed.
C24_SkippedNotRead ==
    \A i \in DOMAIN yielded :
        (/\ i < saved.next
         /\ yielded[i].scan = scans
         /\ yielded[i].info.skipped # "none")
        => yielded[i].info.path \notin (saved.reads \cup saved.contents)

\* C25: between two clear_cache calls one scanner yields no file twice,
\* however the root is spelled in each scan.
C25_YieldedOnce ==
    \A i, j \in DOMAIN yielded :
        yielded[i].info.path = yielded[j].info.path => i = j

\* C26: at most one caller is inside the locked section of safe_write /
\* safe_read for a path at any time, whatever the order of lock attempts,
\* refused attempts, releases and removals of the lock file.
C26_MutualExclusion ==
    Cardinality({p \in Procs : procs[p].pc = "inside"}) <= 1

\* C27: safe_write ends in one of two ways only: it returns True and the
\* target holds the new content (a backup holding the previous content when
\* there was one), or it returns False and the target is as it was; the
\* target never holds partial content.
C27_AllOrNothing ==
    /\ target # "partial"
    /\ wcall.pc = "done" =>
          \/ /\ wcall.ret = "true"
             /\ target = "new"
             /\ (The(wcall.in).exists => backup = "old")
          \/ /\ wcall.ret = "false"
             /\ target = (IF The(wcall.in).exists THEN "old" ELSE "absent")

\* the tasks of the list that ask for URL u
TasksFor(u) ==
    {k \in DOMAIN extract.all_tasks : extract.all_tasks[k].url = u}

\* the img, video and source elements of the page with a non-empty src
MediaTags ==
    {i \in DOMAIN html :
        html[i].name \in {"img", "video", "source"} /\ HasSrc(html[i])}

\* C30 as stated: every src of an img, video or source element is resolved
\* against the page URL, and the task list holds each distinct resulting
\* URL exactly once.
C30_EachUrlOnce ==
    extract.pc = "gather" =>
        \A i \in MediaTags :
            Cardinality(TasksFor(Urljoin(The(extract.base),
                                         The(html[i].src)))) = 1

\* C30: the task list holds one task per img, video or source element with
\* a non-empty src, each for the absolute URL its src resolves to against
\* the page URL; "a.png" on https://x.test/p/ resolves
\* to https://x.test/p/a.png, and a page with that single img gives exactly
\* that one task.
C30_OneTaskPerTag ==
    extract.pc = "gather" =>
        LET base == The(extract.base)
            apng == [scheme |-> "https", netloc |-> "x.test",
                     path |-> <<"p", "a.png">>]
        IN  /\ Len(extract.all_tasks) = Cardinality(MediaTags)
            /\ \A k \in DOMAIN extract.all_tasks :
                  /\ extract.all_tasks[k].url.scheme # ""
                  /\ extract.all_tasks[k].url.netloc # ""
                  /\ Cardinality(TasksFor(extract.all_tasks[k].url))
                        = Cardinality({i \in MediaTags :
                             Urljoin(base, The(html[i].src))
                                = extract.all_tasks[k].url})
            /\ \A i \in MediaTags :
                  (/\ base.path = <<"p", "">>
                   /\ html[i].src = Some(Ref("", "", FALSE, <<"a.png">>)))
                  => TasksFor(apng) # {}
            /\ (/\ base.path = <<"p", "">>
                /\ html = <<[name |-> "img",
                             src |-> Some(Ref("", "", FALSE, <<"a.png">>))]>>)
               => extract.all_tasks
                    = <<[url |-> apng, resource_type |-> "images"]>>

\* C30 witness: two elements of one page gave two tasks for one URL
C30_Witness ==
    /\ extract.pc = "gather"
    /\ Len(extract.all_tasks) = 2
    /\ extract.all_tasks[1].url = extract.all_tasks[2].url
    /\ html[1].src # html[2].src

\* a call that is made and returns in the same step: it was rejected before
\* it could take a connection slot
RejectedAtOnce == started' = started + 1 /\ returned'.kind # "none"

\* C37: a fetch call rejected as duplicate-url, as invalid URL or as
\* connection-limit leaves the limiter's connection counter and its
\* bandwidth window exactly as they were before the call.
C37_RejectionLeavesLimiter ==
    [][RejectedAtOnce
          => /\ active_connections' = active_connections
             /\ bandwidth_window' = bandwidth_window]_vars

\* the bytes of the accepted reservations among the first j whose
\* timestamps lie in the interval [a, a + 1 s]
RECURSIVE AcceptedBytes(_, _)
AcceptedBytes(a, j) ==
    IF j = 0 THEN 0
    ELSE (IF /\ hist[j].ok
             /\ a <= hist[j].ts
             /\ hist[j].ts <= a + WindowSeconds
          THEN hist[j].bs ELSE 0)
         + AcceptedBytes(a, j - 1)

\* C38: for any sequence of bandwidth reservations, the byte counts of the
\* accepted reservations whose timestamps fall within any one-second
\* interval sum to at most max_bandwidth.
C38_AcceptedWithinBudget ==
    \A a \in 0..now : AcceptedBytes(a, Len(hist)) <= MaxBandwidth

\* C38 witness: two accepted reservations fill the budget of one second and
\* a third one in the same second is turned down
C38_Witness ==
    /\ Len(hist) = 3
    /\ hist[1].ok /\ hist[2].ok /\ ~hist[3].ok
    /\ hist[1].ts < hist[2].ts
    /\ hist[3].ts - hist[1].ts <= WindowSeconds
    /\ hist[1].bs + hist[2].bs = MaxBandwidth

\* what the collection stage of a system-mode run has added to the progress
\* so far (the two steps before it add 5 and 15)
CollectionProgress == progress - Percent(20)

YieldedNow == {i \in DOMAIN yielded : yielded[i].scan = scans}

\* C33: when the performance check fails at a directory the traversal stops
\* there: no descriptor from that or any later directory is yielded, the
\* stream ends normally, the descriptors yielded before are kept and the
\* run still proceeds to persistence.
C33_StopsAtFailedCheck ==
    [][/\ (scan.stopped = "none" /\ scan'.stopped # "none")
            => /\ yielded' = yielded
               /\ saved' = saved
               /\ ~scan'.active
       /\ (scan.stopped # "none" /\ scans' = scans /\ scan' # NoScan)
            => /\ yielded' = yielded
               /\ ~scan'.active
               /\ \A i \in YieldedNow : yielded[i].dir \in listed]_vars

\* C33 witness: a scan that yielded a descriptor is stopped by the check
\* with a directory left to visit, and the document is written with the
\* content of what was yielded
C33_Witness ==
    /\ scan.stopped # "none"
    /\ YieldedNow # {}
    /\ \E d \in Trees[tree].dirs :
          d \notin listed /\ ~ShouldSkipPath(scan.root \o d, FALSE)
    /\ saved.contents # {}
    /\ saved.persisted

\* C34: on a scanner whose processed-file counter is 0 (new or just
\* cleared) every performance check made after a positive elapsed time
\* fails, on the files-per-second floor when the memory reading passes;
\* so a scan checked then yields no descriptor and stops, and
\* get_directory_structure returns an error node for the root.
C34_EmptyCounterFails ==
    [][(files_processed = 0 /\ elapsed > 0)
          => /\ CheckPerformance(TRUE, elapsed, files_processed) = "rate"
             /\ CheckPerformance(FALSE, elapsed, files_processed) # "ok"
             /\ (scan.active /\ scan' # scan)
                   => /\ scan'.stopped # "none"
                      /\ ~scan'.active
                      /\ yielded' = yielded
             /\ structure' # structure
                   => /\ structure' = Node("error", <<>>)
                      /\ files_processed' = 0]_vars

\* C34 witness: the first scan of a new scanner stopped on the rate before
\* it yielded anything, and the structure of the same root is an error node
C34_Witness ==
    /\ scans = 1
    /\ scan.stopped = "rate"
    /\ yielded = <<>>
    /\ files_processed = 0
    /\ elapsed > 0
    /\ structure = Node("error", <<>>)

\* whether nothing from the scan root down to the file f withholds it: no
\* directory on the way is excluded or hidden, and the file's own name is
\* neither hidden nor an excluded file
Eligible(f) ==
    /\ \A i \in 1..Len(f.dir) :
          f.dir[i] \notin ExcludedDirectories /\ ~Hidden(f.dir[i])
    /\ ~Hidden(f.name)
    /\ ~MatchesExcludedFile(f.name)

\* C35: a file is withheld by the excluded-directory rule only if some
\* directory on the path from the scan root down to the file has a name in
\* the exclusion list; the names of the root's own ancestors do not change
\* which files are yielded.  So the first scan of a scanner, run to its end
\* without a depth limit, yields every file that nothing below the root
\* withholds.
C35_OnlyNamesBelowRoot ==
    (/\ scans = 1
     /\ scan # NoScan
     /\ ~scan.active
     /\ scan.stopped = "none"
     /\ scan.max_depth = None)
        => \A f \in Trees[tree].files :
              Eligible(f)
                 => \E i \in DOMAIN yielded :
                       yielded[i].info.path
                          = PathOf(Join(scan.root \o f.dir, f.name))

\* the labels the classifier's own tests can give
SniffedTypes ==
    {TextHtml, TextCss, AppJavascript, AppJson, AppYaml, OctetStream,
     TextPlain}

\* C31: the classifier returns exactly one content-type label for every
\* input: the type of the file name's suffix when the table knows it;
\* otherwise that of the first test that matches, in the order HTML prefix,
\* CSS heuristic, JavaScript keywords, JSON object, YAML, and then binary
\* or plain text, for every combination of tests that match.
C31_FirstMatchWins ==
    job.op = "classify" =>
        LET c == job.content
            guess == GuessType(job.file.name)
            isHtml == c.prefix = "html"
            isCss == c.brace /\ c.css
        IN  /\ job.type # <<>>
            /\ job.type \in SniffedTypes
                  \/ (guess # None /\ job.type = The(guess))
            /\ c.encodes =>
                  /\ guess # None => job.type = The(guess)
                  /\ guess = None =>
                        /\ isHtml => job.type = TextHtml
                        /\ (~isHtml /\ isCss) => job.type = TextCss
                        /\ (~isHtml /\ ~isCss /\ c.js)
                              => job.type = AppJavascript
                        /\ (~isHtml /\ ~isCss /\ ~c.js /\ c.json)
                              => job.type = AppJson
                        /\ (~isHtml /\ ~isCss /\ ~c.js /\ ~c.json /\ c.yaml)
                              => job.type = AppYaml
                        /\ (~isHtml /\ ~isCss /\ ~c.js /\ ~c.json /\ ~c.yaml)
                              => job.type =
                                    IF c.binary THEN OctetStream
                                    ELSE TextPlain

\* C31 witness: a content without a file name that passes the CSS, the
\* JavaScript, the JSON and the YAML test at once is classified as CSS
C31_Witness ==
    /\ job.op = "classify"
    /\ job.file.name = <<>>
    /\ job.content.brace /\ job.content.css /\ job.content.js
    /\ job.content.json /\ job.content.yaml
    /\ job.type = TextCss

\* C36: in system mode a readable file within the size limit that is
\* classified as application/json, application/javascript or
\* application/x-yaml is formatted and added to the contents of the
\* document; only a file classified as binary is recorded with the skip
\* reason binary_file.
C36_StructuredTextKept ==
    (/\ job.op = "process"
     /\ job.chk
     /\ job.file.readable
     /\ job.file.size <= EffectiveLimit(job.limit))
        => /\ job.type \in {AppJson, AppJavascript, AppYaml}
                 => job.out.content /\ job.out.skipped = "none"
           /\ job.out.skipped = "binary_file" => job.type = OctetStream

\* the descriptors the pool has returned without a skip reason
Unskipped == {w \in Workers : workers[w].pc = "done"
                              /\ workers[w].skipped = "none"}

\* C39: when the tasks of a scan have all returned, the processed-file
\* counter equals the number of descriptors produced without a skip
\* reason, under every interleaving of the worker threads that increment
\* the counter.
C39_CounterMatchesDescriptors ==
    (\A w \in Workers : workers[w].pc \in {"free", "done"})
        => files_processed = Cardinality(Unskipped)

\* C40: if every network GET eventually completes or times out, every call
\* of any set of fetches started together eventually returns, and then all
\* permits and all connection slots are free: the calls that hold a slot
\* while they wait for a permit never deadlock.
C40_AllCallsReturn ==
    (calls # EmptyBag)
        ~> (/\ calls = EmptyBag
            /\ sem = MaxConcurrent
            /\ active_connections = 0)

\* C40 witness: every connection slot is taken, one holder reads its body
\* and another waits for the permit
C40_Witness ==
    /\ active_connections = ConnectionLimit
    /\ sem = 0
    /\ \E r, q \in Frames : r.pc = "read" /\ q.pc = "sem" /\ q.slot

====
